---- MODULE Spec2Model ----
(***************************************************************************)
(* The durable job queue of backend/jobs/jobqueue.py, the worker loop of   *)
(* backend/jobs/worker.py and the operator endpoints of                    *)
(* backend/routers/jobs.py, as a state machine over the rows of the jobs   *)
(* table.                                                                  *)
(*                                                                         *)
(* Every worker is its own process with its own session on the shared      *)
(* SQLite file.  A commit is one atomic step.  reserve_job is two steps:   *)
(* the SELECT of the candidate row (no transaction is open around it: the  *)
(* driver begins one only at the first UPDATE) and the UPDATE ... WHERE    *)
(* id = ? with its commit.  Other processes may commit between the two.    *)
(*                                                                         *)
(* Time is a clock of abstract ticks; the retry delays of the handlers     *)
(* (120 s .. 86400 s in tasks.py, all positive) are positive tick counts.  *)
(*                                                                         *)
(* The handlers of backend/jobs/tasks.py (sync_artist, import_album,       *)
(* download_track, download_lyrics) act on the catalog: the albums, the    *)
(* tracks and the album subscriptions of one followed artist with one      *)
(* upstream album of two tracks.  A handler is one step for each of its    *)
(* commits, so that other sessions may commit between them.  The           *)
(* follow_artist endpoint of backend/routers/artists.py stages its writes  *)
(* in the request's session and commits them once.                         *)
(*                                                                         *)
(* download_track_by_videoid of backend/downloader/core.py works on the    *)
(* files of DOWNLOAD_DIR and MUSIC_DIR, fetch_and_upsert_album of          *)
(* backend/services/albums.py chooses the ids of an album's tracks, and    *)
(* the scheduler of backend/scheduler.py makes its artist-sync passes over *)
(* the followed artists and their subscriptions.  Its loop thread is       *)
(* started and stopped through Scheduler.start and Scheduler.stop.         *)
(*                                                                         *)
(* A commit may raise (the database stays locked, the write fails): where  *)
(* a handler or the worker catches that, the step in which it raises is an *)
(* action of its own next to the step in which it goes through.            *)
(***************************************************************************)
EXTENDS Integers, FiniteSets, Sequences, TLC

\* ------------------------------------------------------------------ bounds

\* Job rows inserted in one behaviour of the worker pool (SpecPool).
MaxJobs == 2
\* Last tick of the clock.
MaxTime == 1
\* Job rows in one behaviour of the handlers: a handler that would insert
\* more is not followed further.
MaxQueue == 6
\* sync_artist jobs the scheduler enqueues in one behaviour.
MaxSyncs == 2
\* Tracks of an album whose download status is computed on its own.
MaxTracks == 3
\* Tracks of an album whose track ids are chosen.
MaxAlbumTracks == 2
\* Artists the scheduler's sync pass looks at, and the hours its clock runs.
MaxArtists == 2
MaxHours == 2
\* Threads a Scheduler object starts in one behaviour.
MaxThreads == 5
\* History counters stop counting here.
Cap == 2

\* ------------------------------------------------------------ value domains

\* A NULL column / a None argument.
NULL == -1
\* Worker processes (WORKER_NAME); NoWorker is a NULL reserved_by.
Workers == {"w1", "w2"}
NoWorker == "none"
\* last_error texts: NULL, a handler's error text, a cancellation text.
NoError == "none"
ErrTask == "error"
ErrCancelled == "cancelled"
\* The upstream catalog: the artist has one album, the album two tracks.
Artist == 1
UpstreamAlbums == {1}
\* Another artist, without a row in the artists table; the first artist the
\* upstream data of an album names: none, the followed artist or another.
OtherArtist == 2
UpstreamArtists == {NULL, Artist, OtherArtist}
UpstreamTracks == {1, 2}
\* A file_path that is set.
Path == 1
\* download_track_by_videoid: the parameters it declares, and the keywords
\* download_track passes to it.
ExtractorParameters ==
    {"video_id", "artist_name", "album_name", "track_title", "track_number",
     "year", "cover_path_override"}
PassedKeywords == ExtractorParameters \cup {"skip_metadata"}
\* What yt-dlp does for a track in one dispatch: it extracts the audio, it
\* reports a rate limit at the first run only, at every run, or it fails
\* otherwise.
ExtractorBehaviours == {"ok", "rate_limited_once", "rate_limited", "error"}
Succeeds == {"ok"}
\* max_attempts when the caller does not pass it.
DefaultMaxAttempts == 5
\* Track.status values.
TrackStatuses == {"new", "downloading", "done", "failed"}
\* days_old of cleanup_old_jobs, in ticks (scheduler.job_cleanup_days).
DaysOld == {0, 1}
\* Arguments a caller passes to enqueue_job.  A payload is the id its handler
\* works on; EmptyPayload is {}, and NULL a payload that is not passed.
JobTypes == {"", "import_album", "download_track"}
EmptyPayload == 0
Payloads == {NULL, EmptyPayload, 1}
\* A keyword argument the caller does not pass; the ids of the users.
NotPassed == -2
UserIdArgs == {NotPassed, 1}
\* What a call returns when it raises (no job id is negative).
TypeError == -3
ValueError == -4
Priorities == {0, 3}
MaxAttemptsArgs == {-1, 1, 2}
\* retry_delay_seconds of a handler's result, in ticks: the handlers return
\* 120, 300, 600, 3600 or 86400 seconds, or no delay (NULL).
RetryDelays == {1, 2}
\* delay_seconds of a requeue request.
RequeueDelays == {NULL, 1}

VARIABLES
    jobs,      \* the committed jobs table: id -> row
    nextId,    \* the autoincrement counter of jobs.id
    now,       \* the wall clock, now_utc()
    pc,        \* each worker's place in Worker.run
    rnow,      \* each worker's `now` local of reserve_job
    cand,      \* each worker's candidate row as loaded by the SELECT
    cur,       \* the job id each worker's reserve_job returned
    grants,    \* history: reserve_job returns of a job since it was last queued
    dones,     \* history: mark_job_done calls of a job by workers
    orphans,   \* history: jobs whose worker was killed, not requeued since
    ret,       \* what the last call of enqueue_job or cleanup_old_jobs returned
    csel,      \* the scheduler's cleanup_old_jobs: the rows its query loaded
    albums,    \* the committed albums table: id -> artist_id
    subs,      \* the committed album_subscriptions: album id -> download_status
    tracks,    \* the committed tracks table: id -> row
    followed,  \* the committed artists.followed of the artist
    locals,    \* each worker's handler locals: the rows it has read
    tx,        \* the session of a follow_artist request: its uncommitted writes
    disk,      \* the files: DOWNLOAD_DIR/song.<ext> and the files under MUSIC_DIR
    keys,      \* fetch_and_upsert_album: the upstream tracks and the ids chosen
    stopped,   \* the workers whose _stopped flag is set
    monitored, \* the scheduler's view of artists and artist_subscriptions: id -> row
    sched,     \* the Scheduler object, its loop threads and the caller of stop()
    subrows    \* album_subscriptions: the number of rows of each album_id

\* The variables of the components outside the queue and its workers.
outside == <<csel, albums, subs, tracks, followed, locals, tx, disk, keys, stopped, monitored, sched, subrows>>

vars == <<jobs, nextId, now, pc, rnow, cand, cur, grants, dones, orphans, ret,
          outside>>

JobIds == DOMAIN jobs

Inc(n) == IF n < Cap THEN n + 1 ELSE Cap

\* --------------------------------------------------------------- the rows

\* enqueue_job: the inserted row.
NewJob(job_type, payload, priority, max_attempts, scheduled_at, t) ==
    [ type         |-> job_type,
      payload      |-> IF payload = NULL THEN EmptyPayload ELSE payload,
      payload_artist_id |-> NULL,
      payload_user_id |-> NULL,
      user_id      |-> NULL,
      status       |-> "queued",
      attempts     |-> 0,
      max_attempts |-> max_attempts,
      priority     |-> priority,
      scheduled_at |-> scheduled_at,
      created_at   |-> t,
      started_at   |-> NULL,
      finished_at  |-> NULL,
      reserved_by  |-> NoWorker,
      last_error   |-> NoError ]

\* A job row whose payload has the key artist_id.
ForArtist(row, artist_id) == [row EXCEPT !.payload_artist_id = artist_id]

\* A job row whose payload has the key user_id.
ForUser(row, user_id) == [row EXCEPT !.payload_user_id = user_id]

\* _TASK_MAP: the job types that have a handler.
Registry == {"download_track", "download_lyrics", "import_album", "sync_artist"}

\* run_job_task, handler(session, **payload): the payload binds to the
\* parameters of a handler when it has the id the handler requires and no
\* key the handler does not declare (no handler declares user_id).
Binds(row) == row.payload # EmptyPayload /\ row.payload_user_id = NULL

\* run_job_task: the job reaches the body of its handler.
Dispatches(row) == row.type \in Registry /\ Binds(row)

\* The ids of the artists table.  The followed artist is the one artist
\* that ever gets a row, and it has one from when it is followed.
ArtistRows == IF followed THEN {Artist} ELSE {}

\* reserve_job: the WHERE clause of the SELECT.
Eligible(row, t) ==
    /\ row.status = "queued"
    /\ row.attempts < row.max_attempts
    /\ (row.scheduled_at = NULL \/ row.scheduled_at <= t)

\* reserve_job: ORDER BY priority DESC, created_at ASC; a sorts before b.
OrderedBefore(a, b) ==
    \/ a.priority > b.priority
    \/ (a.priority = b.priority /\ a.created_at < b.created_at)

\* reserve_job: the rows LIMIT 1 may return (rows equal under the ORDER BY
\* come in an order the database chooses).
FirstEligible(table, t) ==
    { j \in DOMAIN table :
        /\ Eligible(table[j], t)
        /\ \A k \in DOMAIN table :
             Eligible(table[k], t) => ~OrderedBefore(table[k], table[j]) }

\* A reserve_job that forgets job.started_at = now.
ReservedRowNoStart(row, loaded, worker_name, t) ==
    [row EXCEPT !.attempts    = loaded + 1,
                !.status      = "reserved",
                !.reserved_by = worker_name]

\* reserve_job: the UPDATE; `loaded` is the attempts value the SELECT read.
ReservedRow(row, loaded, worker_name, t) ==
    [row EXCEPT !.attempts    = loaded + 1,
                !.status      = "reserved",
                !.reserved_by = worker_name,
                !.started_at  = t]

\* mark_job_done.
DoneRow(row, t) ==
    [row EXCEPT !.status      = "done",
                !.finished_at = t,
                !.last_error  = NoError]

\* Python truth value of an Optional[int].
Truthy(n) == n # NULL /\ n # 0

\* A mark_job_failed that requeues without looking at the attempts.
RetriesWhateverAttempts(row, retry_delay_seconds) ==
    Truthy(retry_delay_seconds)

\* mark_job_failed: whether the requeue branch is taken.
Retries(row, retry_delay_seconds) ==
    /\ Truthy(retry_delay_seconds)
    /\ row.attempts < (IF Truthy(row.max_attempts) THEN row.max_attempts ELSE 1)

\* mark_job_failed.
FailedRow(row, error_message, retry_delay_seconds, t) ==
    IF Retries(row, retry_delay_seconds)
    THEN [row EXCEPT !.last_error   = error_message,
                     !.status       = "queued",
                     !.scheduled_at = t + retry_delay_seconds,
                     !.reserved_by  = NoWorker]
    ELSE [row EXCEPT !.last_error   = error_message,
                     !.status       = "failed",
                     !.finished_at  = t]

\* cancel_job: its return value.
CancelReturns(row) == row.status \notin {"done", "failed"}

\* cancel_job.
CancelledRow(row, t) ==
    IF CancelReturns(row)
    THEN [row EXCEPT !.status      = "cancelled",
                     !.finished_at = t,
                     !.last_error  = ErrCancelled]
    ELSE row

\* requeue_job (router): the updated row.
RequeuedRow(row, delay_seconds, t) ==
    [row EXCEPT !.status       = "queued",
                !.scheduled_at = IF delay_seconds # NULL THEN t + delay_seconds
                                 ELSE NULL,
                !.last_error   = NoError,
                !.attempts     = 0]

\* A row written back as queued starts a new round of reservations.
GrantsAfter(j, row) ==
    IF row.status = "queued" THEN [grants EXCEPT ![j] = 0] ELSE grants

\* A session that holds no row.
NoCandidate == [id |-> 0, attempts |-> 0]

\* cleanup_old_jobs: the rows its query returns.
OldJobs(table, cutoff, keep_failed) ==
    { j \in DOMAIN table :
        /\ table[j].finished_at # NULL
        /\ table[j].finished_at < cutoff
        /\ IF keep_failed THEN table[j].status = "done"
           ELSE table[j].status \in {"done", "failed", "cancelled"} }

\* The rowid SQLite gives the next inserted row: one more than the largest
\* in the table (the column is INTEGER PRIMARY KEY without AUTOINCREMENT).
NextRowId(ids) ==
    IF ids = {} THEN 1 ELSE (CHOOSE j \in ids : \A k \in ids : k <= j) + 1

\* The statuses of a finished job.
Terminal == {"done", "failed", "cancelled"}

\* A cleanup_old_jobs that is not running.
NoCleanup == [on |-> FALSE, ids |-> {}]

\* upsert_track: a new Track row.
NewTrack(album_id) ==
    [ album_id   |-> album_id,
      status     |-> "new",
      file_path  |-> NULL,
      has_lyrics |-> FALSE,
      lyrics_local |-> NULL ]

\* check_and_update_album_download_status: the status it computes from the
\* tracks of the album.
AlbumDownloadStatus(table, album_id) ==
    LET of(st) == Cardinality({t \in DOMAIN table :
                      table[t].album_id = album_id /\ table[t].status = st})
        total == Cardinality({t \in DOMAIN table : table[t].album_id = album_id})
        done_count == of("done")
        downloading_count == of("downloading")
        failed_count == of("failed")
        new_count == of("new")
    IN  IF total = 0 THEN "pending"
        ELSE IF done_count = total THEN "completed"
        ELSE IF done_count > 0 /\ (new_count + failed_count) = 0 THEN "completed"
        ELSE IF downloading_count > 0 THEN "downloading"
        ELSE IF failed_count = total THEN "failed"
        ELSE IF failed_count > 0 \/ new_count > 0 THEN "pending"
        ELSE "completed"

\* check_and_update_album_download_status: the subscriptions it leaves.
StatusChecked(subscriptions, table, album_id) ==
    IF album_id \in DOMAIN subscriptions
    THEN [subscriptions EXCEPT ![album_id] = AlbumDownloadStatus(table, album_id)]
    ELSE subscriptions

\* A table after the rows `rows` are inserted with the ids n, n+1, ...
Inserted(table, n, rows) ==
    [i \in DOMAIN table \cup (n .. n + Len(rows) - 1) |->
        IF i >= n THEN rows[i - n + 1] ELSE table[i]]

\* The ids of a set in ascending order (ORDER BY Track.id ASC).
Ascending(ids) ==
    CHOOSE q \in [1..Cardinality(ids) -> ids] :
        \A a, b \in 1..Cardinality(ids) : a < b => q[a] < q[b]

\* fetch_and_upsert_album: a Track row the handler did not find.
Absent == [status |-> "absent", file_path |-> NULL, has_lyrics |-> FALSE]

\* A fetch_and_upsert_album that resets every track it finds.
KeepsNoTrack(pre_existing) == FALSE

\* fetch_and_upsert_album: whether status and file_path of the row it read
\* are kept ("Preserve status if track has file").
KeepsTrack(pre_existing) ==
    pre_existing # Absent /\ pre_existing.file_path # NULL

\* fetch_and_upsert_album with upsert_track at the commit: the row of a
\* track, given the row the handler read (pre_existing) and the committed
\* row (row); only the columns the handler changed are written.
UpsertedTrack(pre_existing, row, album_id) ==
    IF pre_existing = Absent THEN NewTrack(album_id)
    ELSE [row EXCEPT
            !.album_id   = album_id,
            !.status     = IF KeepsTrack(pre_existing) \/ pre_existing.status = "new"
                           THEN @ ELSE "new",
            !.has_lyrics = IF pre_existing.has_lyrics THEN FALSE ELSE @]

\* A handler that has read nothing; a request session with nothing staged.
NoLocals == [albums |-> {}, tracks |-> <<>>, artist_id |-> NULL,
             flushed |-> FALSE, banner_updated |-> FALSE,
             extractor |-> "none", calls |-> 0, retry_delay_seconds |-> NULL,
             video_id |-> NULL, response |-> "none", unsubscribed |-> {},
             compensated |-> FALSE]

\* No file in DOWNLOAD_DIR and none under MUSIC_DIR: song is the video whose
\* audio DOWNLOAD_DIR/song.<ext> holds, music gives for the destination file
\* of a video the video whose audio it holds.
VideoIds == 1..MaxTracks
NoFiles == [song |-> NULL, music |-> [v \in VideoIds |-> NULL]]

\* Track titles as upstream gives them, character by character.
SongLiveParen == <<"S", "o", "n", "g", " ", "(", "L", "i", "v", "e", ")">>
SongLive == <<"S", "o", "n", "g", " ", "L", "i", "v", "e">>
SongRemixParen == <<"S", "o", "n", "g", " ", "(", "R", "e", "m", "i", "x", ")">>
SongLower == <<"s", "o", "n", "g", " ">>
Intro == <<"I", "n", "t", "r", "o">>
IntroUpper == <<"I", "N", "T", "R", "O">>
Titles == {SongLiveParen, SongLive, SongRemixParen, SongLower, Intro, IntroUpper}

\* The ids of the album endpoint and of the playlist at a position.
VideoId(idx) == <<"v", idx>>
AudioId(idx) == <<"a", idx>>

\* fetch_and_upsert_album before the album is fetched.
NoKeys == [album |-> <<>>, playlist |-> <<>>, ids |-> <<>>]

\* str.lower() on the letters of the titles.
LowerOf == [S |-> "s", L |-> "l", R |-> "r", I |-> "i", N |-> "n", T |-> "t",
            O |-> "o"]
Lower(str) ==
    [i \in 1..Len(str) |-> IF str[i] \in DOMAIN LowerOf THEN LowerOf[str[i]]
                           ELSE str[i]]

\* str.strip(): the blanks at both ends are removed.
RECURSIVE Strip(_)
Strip(str) ==
    IF str = <<>> THEN str
    ELSE IF Head(str) = " " THEN Strip(Tail(str))
    ELSE IF str[Len(str)] = " " THEN Strip(SubSeq(str, 1, Len(str) - 1))
    ELSE str

\* sub in str.
Contains(sub, str) ==
    \E i \in 0..Len(str) :
        i + Len(sub) <= Len(str) /\ SubSeq(str, i + 1, i + Len(sub)) = sub

\* str.split("(")[0]: what stands before the first parenthesis.
BeforeParen(str) ==
    IF \E i \in 1..Len(str) : str[i] = "("
    THEN LET first == CHOOSE i \in 1..Len(str) :
                          /\ str[i] = "("
                          /\ \A k \in 1..(i - 1) : str[k] # "("
         IN SubSeq(str, 1, first - 1)
    ELSE str

\* fetch_and_upsert_album: title_match of an album title and a playlist
\* title.
title_match(title, playlist_title) ==
    LET album_title_lower == Strip(Lower(title))
        playlist_title_lower == Strip(Lower(playlist_title)) IN
      \/ album_title_lower = playlist_title_lower
      \/ Contains(album_title_lower, playlist_title_lower)
      \/ Contains(playlist_title_lower, album_title_lower)
      \/ Strip(BeforeParen(album_title_lower))
           = Strip(BeforeParen(playlist_title_lower))

\* fetch_and_upsert_album: final_track_id of the album track at a position.
final_track_id(album, playlist, idx) ==
    IF /\ idx \in DOMAIN playlist
       /\ playlist[idx].id # album[idx].id
       /\ title_match(album[idx].title, playlist[idx].title)
    THEN playlist[idx].id
    ELSE album[idx].id

\* download_track: what the call dl_func(video_id=..., ...) with the given
\* keywords does at the given turn of the loop (1 or 2).  A keyword the
\* function does not declare raises TypeError before its body runs.
CallOutcome(keywords, behaviour, attempt) ==
    IF ~(keywords \subseteq ExtractorParameters) THEN "TypeError"
    ELSE IF behaviour = "rate_limited_once"
         THEN (IF attempt = 1 THEN "rate_limited" ELSE "ok")
    ELSE behaviour

\* download_track, the except branch: retry_delay_seconds for the error that
\* ended the loop (_is_youtube_rate_limit_error matches the rate limit only).
RetryDelaySeconds(outcome) == IF outcome = "rate_limited" THEN 600 ELSE 300

\* download_track: the turn of the extractor loop a handler is in.
Attempt(w) == IF pc[w] = "download_retry" THEN 2 ELSE 1
NoTx == [on |-> FALSE, followed |-> FALSE, subs |-> {}, pre |-> <<>>,
         todo |-> <<>>, jobs |-> <<>>, inserts |-> {}]

\* A follow_artist that lets every enqueue_job commit.
CommitEach == TRUE

\* follow_artist: the commit argument of its enqueue_job calls.
FollowCommits == FALSE

\* ------------------------------------------- the scheduler's monitored artists

\* The ids of the artists the scheduler's sync pass looks at.
ArtistIds == 1..MaxArtists

\* scheduler.sync_interval_hours, the setting the pass reads, in hours.
SyncIntervalHours == 1

\* An artist that was never followed: artists.followed is false and it has no
\* row in artist_subscriptions (last_synced_at is that row's column).
NoMonitored ==
    [a \in ArtistIds |->
       [followed |-> FALSE, subscribed |-> FALSE, last_synced_at |-> NULL,
        last_error |-> "none"]]

\* mark_artist_synced(session, artist_id, error): the subscription of the
\* artist, if there is one, gets last_synced_at = now_utc() and last_error =
\* error, None ("none") without one.
MarkedSynced(m, a, error) ==
    IF a \in DOMAIN m /\ m[a].subscribed
    THEN [m EXCEPT ![a].last_synced_at = now, ![a].last_error = error]
    ELSE m

\* now_utc() less the interval: datetime.now(timezone.utc) carries a tzinfo.
Cutoff(sync_interval_hours) == [t |-> now - sync_interval_hours, tzinfo |-> TRUE]

\* A DateTime(timezone=True) column read back from the SQLite database: the
\* stored text has no offset, so the datetime loaded from it has no tzinfo.
Loaded(t) == [t |-> t, tzinfo |-> FALSE]

\* datetime.__lt__: ordering a datetime without tzinfo against one with
\* tzinfo raises TypeError.
Earlier(a, b) ==
    IF a.tzinfo # b.tzinfo THEN "TypeError"
    ELSE IF a.t < b.t THEN "true" ELSE "false"

\* get_monitored_artists_needing_sync: the followed artists without a
\* subscription, never synced, or last synced before the cutoff; the
\* comparison is made for each followed artist that has a last_synced_at,
\* and an exception of it ends the call.
get_monitored_artists_needing_sync(sync_interval_hours) ==
    LET followed_artists == {a \in ArtistIds : monitored[a].followed}
        compared == {a \in followed_artists :
                       /\ monitored[a].subscribed
                       /\ monitored[a].last_synced_at # NULL}
        lt(a) == Earlier(Loaded(monitored[a].last_synced_at),
                         Cutoff(sync_interval_hours))
    IN  IF \E a \in compared : lt(a) = "TypeError"
        THEN [raised |-> TRUE, due_artists |-> {}]
        ELSE [raised |-> FALSE,
              due_artists |->
                {a \in followed_artists :
                   \/ ~monitored[a].subscribed
                   \/ monitored[a].last_synced_at = NULL
                   \/ lt(a) = "true"}]

\* The artists of a set in a list, by id.
RECURSIVE InOrder(_)
InOrder(S) ==
    IF S = {} THEN <<>>
    ELSE LET a == CHOOSE x \in S : \A y \in S : x <= y
         IN  <<a>> \o InOrder(S \ {a})

\* ------------------------------------------------------ the Scheduler object

\* The threads Scheduler.start creates, in the order of their creation.
ThreadIds == 1..MaxThreads

\* Scheduler.__init__: no thread, the _stopped event clear; th is the place
\* of each thread in _run_loop, joining the thread a stop() call waits for.
NoScheduler ==
    [thread |-> NULL, stopped |-> FALSE, joining |-> NULL,
     th |-> [t \in ThreadIds |-> "unborn"]]

\* threading.Thread.is_alive.
is_alive(t) == sched.th[t] \notin {"unborn", "dead"}

\* ------------------------------------------------------------------- Init

\* An empty queue, idle workers and no request in progress.
InitQueue ==
    /\ jobs = <<>>
    /\ nextId = 1
    /\ now = 0
    /\ pc = [w \in Workers |-> "idle"]
    /\ rnow = [w \in Workers |-> 0]
    /\ cand = [w \in Workers |-> NoCandidate]
    /\ cur = [w \in Workers |-> 0]
    /\ grants = <<>>
    /\ dones = <<>>
    /\ orphans = {}
    /\ ret = NULL
    /\ csel = NoCleanup
    /\ locals = [w \in Workers |-> NoLocals]
    /\ tx = NoTx
    /\ disk = NoFiles
    /\ stopped = {}
    /\ monitored = NoMonitored
    /\ sched = NoScheduler

\* The database after create_all: every table is empty.
Init ==
    /\ InitQueue
    /\ keys = NoKeys
    /\ albums = <<>>
    /\ subs = <<>>
    /\ subrows = [a \in UpstreamAlbums |-> IF a \in DOMAIN subs THEN 1 ELSE 0]
    /\ tracks = <<>>
    /\ followed = FALSE

\* ---------------------------------------------------------------- actions

\* The clock advances.
Tick ==
    /\ now < MaxTime
    /\ now' = now + 1
    /\ UNCHANGED <<jobs, nextId, pc, rnow, cand, cur, grants, dones, orphans, ret, outside>>

\* enqueue_job with commit=True, as the enqueue endpoint and the handlers
\* call it.
enqueue_job(job_type, payload, priority, max_attempts, scheduled_at) ==
    /\ IF job_type = ""
       THEN /\ ret' = ValueError
            /\ UNCHANGED <<jobs, grants, dones, nextId>>
       ELSE /\ jobs' = (nextId :> NewJob(job_type, payload, priority,
                                         max_attempts, scheduled_at, now)) @@ jobs
            /\ grants' = (nextId :> 0) @@ grants
            /\ dones' = (nextId :> 0) @@ dones
            /\ nextId' = nextId + 1
            /\ ret' = nextId
    /\ UNCHANGED <<now, pc, rnow, cand, cur, orphans, outside>>

\* A call enqueue_job(db, job_type=..., payload=..., ..., user_id=...) as
\* follow_album and the chart endpoints write it, or without the keyword as
\* every other caller does.  enqueue_job declares no user_id parameter: with
\* the keyword the call raises before the body runs.
enqueue_job_call(job_type, payload, scheduled_at, priority, max_attempts, user_id) ==
    IF user_id # NotPassed
    THEN /\ ret' = TypeError
         /\ UNCHANGED <<jobs, nextId, now, pc, rnow, cand, cur, grants, dones,
                        orphans, outside>>
    ELSE enqueue_job(job_type, payload, priority, max_attempts, scheduled_at)

\* Worker.run: the loop goes on while _stopped is not set; a fresh session,
\* then reserve_job up to its SELECT.  With no eligible row reserve_job
\* returns None and the worker sleeps and polls again.
reserve_job_select(w) ==
    /\ pc[w] = "idle"
    /\ w \notin stopped
    /\ \/ /\ FirstEligible(jobs, now) = {}
          /\ UNCHANGED <<pc, rnow, cand>>
       \/ \E j \in FirstEligible(jobs, now) :
            /\ pc' = [pc EXCEPT ![w] = "selected"]
            /\ rnow' = [rnow EXCEPT ![w] = now]
            /\ cand' = [cand EXCEPT ![w] = [id |-> j, attempts |-> jobs[j].attempts]]
    /\ UNCHANGED <<jobs, nextId, now, cur, grants, dones, orphans, ret, outside>>

\* reserve_job from the UPDATE to its return: the row is written by primary
\* key, whatever it holds by now, and the job is returned to the worker.
reserve_job_commit(w) ==
    /\ pc[w] = "selected"
    /\ LET j == cand[w].id IN
         IF j \in JobIds
         THEN /\ jobs' = [jobs EXCEPT ![j] = ReservedRow(@, cand[w].attempts, w, rnow[w])]
              /\ grants' = [grants EXCEPT ![j] = Inc(@)]
              /\ cur' = [cur EXCEPT ![w] = j]
              /\ pc' = [pc EXCEPT ![w] = "running"]
         ELSE \* the row is gone: the UPDATE fails, reserve_job returns None
              /\ pc' = [pc EXCEPT ![w] = "idle"]
              /\ UNCHANGED <<jobs, grants, cur>>
    /\ rnow' = [rnow EXCEPT ![w] = 0]
    /\ cand' = [cand EXCEPT ![w] = NoCandidate]
    /\ UNCHANGED <<nextId, now, dones, orphans, ret, outside>>

\* Worker.run from the return of run_job_task with ok=True: mark_job_done,
\* session closed.
mark_done_return(w) ==
    /\ jobs' = IF cur[w] \in JobIds
               THEN [jobs EXCEPT ![cur[w]] = DoneRow(@, now)]
               ELSE jobs
    /\ dones' = [dones EXCEPT ![cur[w]] = Inc(@)]
    /\ pc' = [pc EXCEPT ![w] = "idle"]
    /\ cur' = [cur EXCEPT ![w] = 0]
    /\ UNCHANGED <<nextId, now, rnow, cand, grants, orphans, ret>>

\* Worker.run: run_job_task returned ok=True.
WorkerDone(w) ==
    /\ pc[w] = "running"
    /\ mark_done_return(w)
    /\ UNCHANGED outside

\* Worker.run from the return of run_job_task with ok=False (or its raise)
\* and the given retry_delay_seconds (NULL: none): mark_job_failed, session
\* closed.
mark_failed_return(w, retry_delay) ==
    /\ LET j == cur[w]
           row == FailedRow(jobs[j], ErrTask, retry_delay, now) IN
         IF j \in JobIds
         THEN /\ jobs' = [jobs EXCEPT ![j] = row]
              /\ grants' = GrantsAfter(j, row)
         ELSE UNCHANGED <<jobs, grants>>
    /\ pc' = [pc EXCEPT ![w] = "idle"]
    /\ cur' = [cur EXCEPT ![w] = 0]
    /\ UNCHANGED <<nextId, now, rnow, cand, dones, orphans, ret>>

\* Worker.run: run_job_task returned ok=False (or raised).
WorkerFailed(w, retry_delay) ==
    /\ pc[w] = "running"
    /\ mark_failed_return(w, retry_delay)
    /\ UNCHANGED outside

\* Worker.run when mark_job_done or mark_job_failed raises at its
\* session.commit() (the database is locked or the write fails): the except
\* around the call logs it, the session is closed, which rolls the change
\* back, and the loop goes on to its next turn.
mark_error_return(w) ==
    /\ pc[w] = "running"
    /\ pc' = [pc EXCEPT ![w] = "idle"]
    /\ cur' = [cur EXCEPT ![w] = 0]
    /\ UNCHANGED <<jobs, nextId, now, rnow, cand, grants, dones, orphans, ret,
                   outside>>

\* Worker._handle_signal on SIGINT or SIGTERM, wherever the worker is in its
\* loop: _stopped is set.
handle_signal(w) ==
    /\ pc[w] # "exited"
    /\ w \notin stopped
    /\ stopped' = stopped \cup {w}
    /\ UNCHANGED <<jobs, nextId, now, pc, rnow, cand, cur, grants, dones,
                   orphans, ret, csel, albums, subs, tracks, followed, locals,
                   tx, disk, keys, monitored, sched, subrows>>

\* A worker that leaves its loop wherever it is when _stopped is set.
exit_at_once(w) ==
    /\ w \in stopped
    /\ pc[w] # "exited"
    /\ pc' = [pc EXCEPT ![w] = "exited"]
    /\ UNCHANGED <<jobs, nextId, now, rnow, cand, cur, grants, dones, orphans,
                   ret, outside>>

\* Worker.run: the loop condition is false and run returns.
worker_exit(w) ==
    /\ w \in stopped
    /\ pc[w] = "idle"
    /\ pc' = [pc EXCEPT ![w] = "exited"]
    /\ UNCHANGED <<jobs, nextId, now, rnow, cand, cur, grants, dones, orphans,
                   ret, outside>>

\* The worker process is killed while its handler runs.
Crash(w) ==
    /\ pc[w] = "running"
    /\ pc' = [pc EXCEPT ![w] = "crashed"]
    /\ orphans' = IF /\ cur[w] \in JobIds
                     /\ jobs[cur[w]].status = "reserved"
                     /\ jobs[cur[w]].reserved_by = w
                  THEN orphans \cup {cur[w]} ELSE orphans
    /\ UNCHANGED <<jobs, nextId, now, rnow, cand, cur, grants, dones, ret, outside>>

\* jobqueue.cancel_job(job_id).
cancel_job(j) ==
    /\ j \in JobIds
    /\ jobs' = [jobs EXCEPT ![j] = CancelledRow(@, now)]
    /\ UNCHANGED <<nextId, now, pc, rnow, cand, cur, grants, dones, orphans, ret, outside>>

\* POST /api/jobs/{id}/cancel: refuses a done or failed job, else
\* mark_job_failed without a retry delay.
cancel_job_endpoint(j) ==
    /\ j \in JobIds
    /\ jobs[j].status \notin {"done", "failed"}
    /\ jobs' = [jobs EXCEPT ![j] = FailedRow(@, ErrCancelled, NULL, now)]
    /\ UNCHANGED <<nextId, now, pc, rnow, cand, cur, grants, dones, orphans, ret, outside>>

\* POST /api/jobs/{id}/requeue (administrators): any job, whatever its status.
requeue_job(j, delay_seconds) ==
    /\ j \in JobIds
    /\ jobs' = [jobs EXCEPT ![j] = RequeuedRow(@, delay_seconds, now)]
    /\ grants' = [grants EXCEPT ![j] = 0]
    /\ orphans' = orphans \ {j}
    /\ UNCHANGED <<nextId, now, pc, rnow, cand, cur, dones, ret, outside>>

\* cleanup_old_jobs up to the end of its query: the rows to delete are loaded.
cleanup_select(days_old, keep_failed) ==
    /\ ~csel.on
    /\ csel' = [on |-> TRUE, ids |-> OldJobs(jobs, now - days_old, keep_failed)]
    /\ UNCHANGED <<jobs, nextId, now, pc, rnow, cand, cur, grants, dones,
                   orphans, ret, albums, subs, tracks, followed, locals, tx, disk, keys, stopped, monitored, sched, subrows>>

\* cleanup_old_jobs from its session.delete loop to its return: each loaded
\* row is deleted by primary key at the commit, and the count is returned.
cleanup_commit ==
    /\ csel.on
    /\ LET left == DOMAIN jobs \ csel.ids IN
         /\ jobs' = [j \in left |-> jobs[j]]
         /\ nextId' = NextRowId(left)
    /\ ret' = Cardinality(csel.ids)
    /\ csel' = NoCleanup
    /\ UNCHANGED <<now, pc, rnow, cand, cur, grants, dones, orphans,
                   albums, subs, tracks, followed, locals, tx, disk, keys, stopped, monitored, sched, subrows>>

\* check_and_update_album_download_status(session, album_id) and the commit
\* of its caller.
check_and_update_album_download_status(album_id) ==
    /\ subs' = StatusChecked(subs, tracks, album_id)
    /\ UNCHANGED <<jobs, nextId, now, pc, rnow, cand, cur, grants, dones,
                   orphans, ret, csel, albums, tracks, followed, locals, tx, disk, keys, stopped, monitored, sched, subrows>>

\* enqueue_job(..., commit=True) inside a handler, once for each row.
enqueue_rows(rows) ==
    /\ nextId + Len(rows) - 1 <= MaxQueue
    /\ jobs' = Inserted(jobs, nextId, rows)
    /\ grants' = Inserted(grants, nextId, [i \in 1..Len(rows) |-> 0])
    /\ dones' = Inserted(dones, nextId, [i \in 1..Len(rows) |-> 0])
    /\ nextId' = nextId + Len(rows)

\* The scheduler's sync pass: a sync_artist job for the followed artist.
schedule_sync ==
    /\ enqueue_job("sync_artist", Artist, 5, DefaultMaxAttempts, NULL)

\* sync_artist, fetch_and_upsert_artist and the banner check: the artist is
\* fetched and upserted, and the session is flushed, which writes the row
\* when the upstream name or thumbnails differ from it (changed).  The
\* thumbnails of the row are the upstream ones by now, so the banner is
\* downloaded exactly when the row has no banner file (banner_missing).
sync_artist_fetch(w) ==
    /\ pc[w] = "running"
    /\ jobs[cur[w]].type = "sync_artist"
    /\ Binds(jobs[cur[w]])
    /\ \E changed \in BOOLEAN, banner_missing \in BOOLEAN :
         /\ locals' = [locals EXCEPT ![w].flushed = changed]
         /\ pc' = [pc EXCEPT ![w] = IF banner_missing THEN "sync_banner"
                                    ELSE "sync_read"]
    /\ UNCHANGED <<jobs, nextId, now, rnow, cand, cur, grants, dones, orphans,
                   ret, csel, albums, subs, tracks, followed, tx, disk, keys, stopped, monitored, sched, subrows>>

\* sync_artist, ensure_artist_banner: the HTTP download of the banner; when
\* it fails the handler returns ok=False with a retry delay.
sync_artist_banner(w, downloaded) ==
    /\ pc[w] = "sync_banner"
    /\ pc' = [pc EXCEPT ![w] = IF downloaded THEN "sync_read" ELSE "fail_retry"]
    /\ locals' = IF downloaded THEN [locals EXCEPT ![w].banner_updated = TRUE]
                 ELSE [locals EXCEPT ![w] = NoLocals]
    /\ UNCHANGED <<jobs, nextId, now, rnow, cand, cur, grants, dones, orphans,
                   ret, csel, albums, subs, tracks, followed, tx, disk, keys, stopped, monitored, sched, subrows>>

\* sync_artist, the except branch: fetch_and_upsert_artist raised (the
\* catalog fetch or the upsert), or commit_artist or commit_subscriptions
\* did; mark_artist_synced records the error on the subscription, the commit
\* follows and ok=False is returned with a retry delay.
sync_artist_error(w) ==
    /\ \/ pc[w] = "running" /\ jobs[cur[w]].type = "sync_artist" /\ Binds(jobs[cur[w]])
       \/ pc[w] \in {"sync_read", "sync_subscribe"}
    /\ monitored' = MarkedSynced(monitored, jobs[cur[w]].payload, "error")
    /\ pc' = [pc EXCEPT ![w] = "fail_retry"]
    /\ locals' = [locals EXCEPT ![w] = NoLocals]
    /\ UNCHANGED <<jobs, nextId, now, rnow, cand, cur, grants, dones, orphans,
                   ret, csel, albums, subs, tracks, followed, tx, disk, keys,
                   stopped, sched, subrows>>

\* sync_artist from the commit of the artist up to new_albums: the albums of
\* the artist are read; without a new album the sync time is committed and
\* the handler returns ok.
sync_artist_read(w) ==
    /\ pc[w] = "sync_read"
    /\ LET existing_album_ids == {a \in DOMAIN albums : albums[a] = Artist}
           new_albums == UpstreamAlbums \ existing_album_ids IN
         /\ locals' = [locals EXCEPT ![w].albums = new_albums,
                                     ![w].flushed = FALSE]
         /\ pc' = [pc EXCEPT ![w] = IF new_albums = {} THEN "ok" ELSE "sync_select"]
         /\ monitored' = IF new_albums = {}
                         THEN MarkedSynced(monitored, jobs[cur[w]].payload, "none")
                         ELSE monitored
    /\ UNCHANGED <<jobs, nextId, now, rnow, cand, cur, grants, dones, orphans,
                   ret, csel, albums, subs, tracks, followed, tx, disk, keys, stopped, sched, subrows>>

\* sync_artist, subscribe_to_album up to its SELECT: for a new album the
\* subscription of that album_id is looked up; no transaction is open yet.
sync_artist_select(w) ==
    /\ pc[w] = "sync_select"
    /\ locals' = [locals EXCEPT
                    ![w].unsubscribed = {a \in locals[w].albums : subrows[a] = 0}]
    /\ pc' = [pc EXCEPT ![w] = "sync_subscribe"]
    /\ UNCHANGED <<jobs, nextId, now, rnow, cand, cur, grants, dones, orphans,
                   ret, csel, albums, subs, tracks, followed, tx, disk, keys,
                   stopped, monitored, sched, subrows>>

\* subscribe_to_album: an AlbumSubscription row is added unless the SELECT
\* found one (album_id has an index and no unique constraint).
Subscribed(existing) == ~existing

\* The rows of album_subscriptions after a commit that adds one row for
\* each album of `added`.
Inserted1(rows, added) ==
    [a \in DOMAIN rows |-> IF a \in added THEN rows[a] + 1 ELSE rows[a]]

\* sync_artist: subscribe_to_album for every new album, and the commit.
sync_artist_subscribe(w) ==
    /\ pc[w] = "sync_subscribe"
    /\ subs' = [a \in DOMAIN subs \cup locals[w].albums |->
                  IF a \in DOMAIN subs THEN subs[a] ELSE "pending"]
    /\ subrows' = Inserted1(subrows, {a \in locals[w].albums :
                                        Subscribed(a \notin locals[w].unsubscribed)})
    /\ pc' = [pc EXCEPT ![w] = "sync_enqueue"]
    /\ UNCHANGED <<jobs, nextId, now, rnow, cand, cur, grants, dones, orphans,
                   ret, csel, albums, tracks, followed, locals, tx, disk, keys, stopped, monitored, sched>>

\* sync_artist: an import_album job for every new album, the sync time, and
\* the return.
sync_artist_enqueue(w) ==
    /\ pc[w] = "sync_enqueue"
    /\ LET ids == Ascending(locals[w].albums) IN
         enqueue_rows([i \in 1..Len(ids) |->
             ForArtist(NewJob("import_album", ids[i], 3, DefaultMaxAttempts,
                              NULL, now), Artist)])
    /\ monitored' = MarkedSynced(monitored, jobs[cur[w]].payload, "none")
    /\ pc' = [pc EXCEPT ![w] = "ok"]
    /\ locals' = [locals EXCEPT ![w] = NoLocals]
    /\ UNCHANGED <<now, rnow, cand, cur, orphans, ret, csel, albums, subs,
                   tracks, followed, tx, disk, keys, stopped, sched, subrows>>

\* import_album, fetch_and_upsert_album up to the upserts: the album is
\* fetched, its artist_id is the one of the payload or, without one, the
\* first artist of the upstream data, and every track of it is looked up
\* (pre_existing).
import_album_read(w) ==
    /\ pc[w] = "running"
    /\ jobs[cur[w]].type = "import_album"
    /\ Binds(jobs[cur[w]])
    /\ \E first_artist \in UpstreamArtists :
         locals' = [locals EXCEPT
                    ![w].artist_id =
                        IF jobs[cur[w]].payload_artist_id # NULL
                        THEN jobs[cur[w]].payload_artist_id ELSE first_artist,
                    ![w].tracks =
                    [t \in UpstreamTracks |->
                       IF t \in DOMAIN tracks
                       THEN [status     |-> tracks[t].status,
                             file_path  |-> tracks[t].file_path,
                             has_lyrics |-> tracks[t].has_lyrics]
                       ELSE Absent]]
    /\ pc' = [pc EXCEPT ![w] = "import_commit"]
    /\ UNCHANGED <<jobs, nextId, now, rnow, cand, cur, grants, dones, orphans,
                   ret, csel, albums, subs, tracks, followed, tx, disk, keys, stopped, monitored, sched, subrows>>

\* import_album: the commit of the album and of its tracks.  A track the
\* handler did not find and that another session has inserted since makes
\* the commit fail: rollback, ok=False with a retry delay.
import_album_commit(w) ==
    /\ pc[w] = "import_commit"
    /\ LET pre == locals[w].tracks
           album_id == jobs[cur[w]].payload IN
         IF \E t \in UpstreamTracks : pre[t] = Absent /\ t \in DOMAIN tracks
         THEN /\ pc' = [pc EXCEPT ![w] = "fail_retry"]
              /\ UNCHANGED <<albums, tracks>>
         ELSE /\ albums' = [a \in DOMAIN albums \cup {album_id} |->
                              IF a # album_id THEN albums[a]
                              ELSE IF locals[w].artist_id # NULL
                                   THEN locals[w].artist_id
                              ELSE IF a \in DOMAIN albums THEN albums[a]
                              ELSE NULL]
              /\ tracks' = [t \in DOMAIN tracks \cup UpstreamTracks |->
                              IF t \in UpstreamTracks
                              THEN UpsertedTrack(pre[t],
                                     IF t \in DOMAIN tracks THEN tracks[t]
                                     ELSE NewTrack(album_id), album_id)
                              ELSE tracks[t]]
              /\ pc' = [pc EXCEPT ![w] = "import_enqueue"]
    /\ locals' = [locals EXCEPT ![w] = NoLocals]
    /\ UNCHANGED <<jobs, nextId, now, rnow, cand, cur, grants, dones, orphans,
                   ret, csel, subs, followed, tx, disk, keys, stopped, monitored, sched, subrows>>

\* import_album: a download_track job for every track of the album that is
\* new or failed, and the return.
import_album_enqueue(w) ==
    /\ pc[w] = "import_enqueue"
    /\ LET album_id == jobs[cur[w]].payload
           ids == Ascending({t \in DOMAIN tracks :
                      /\ tracks[t].album_id = album_id
                      /\ tracks[t].status \in {"new", "failed"}}) IN
         enqueue_rows([i \in 1..Len(ids) |->
             NewJob("download_track", ids[i], 0, DefaultMaxAttempts, NULL, now)])
    /\ pc' = [pc EXCEPT ![w] = "ok"]
    /\ UNCHANGED <<now, rnow, cand, cur, orphans, ret, outside>>

\* download_track T1: the track is read and committed as downloading; a
\* track that is not in the table ends the handler with ok=False.  What the
\* extractor will do for the track is fixed here, from the given behaviours.
download_track_start(w, behaviours) ==
    /\ pc[w] = "running"
    /\ jobs[cur[w]].type = "download_track"
    /\ Binds(jobs[cur[w]])
    /\ LET t == jobs[cur[w]].payload IN
         IF t \in DOMAIN tracks
         THEN /\ tracks' = [tracks EXCEPT ![t].status = "downloading"]
              /\ pc' = [pc EXCEPT ![w] = "download_io"]
              /\ \E b \in behaviours :
                   locals' = [locals EXCEPT ![w] = [NoLocals EXCEPT !.extractor = b]]
         ELSE /\ pc' = [pc EXCEPT ![w] = "fail_final"]
              /\ UNCHANGED <<tracks, locals>>
    /\ UNCHANGED <<jobs, nextId, now, rnow, cand, cur, grants, dones, orphans,
                   ret, csel, albums, subs, followed, tx, disk, keys, stopped, monitored, sched, subrows>>

\* download_track, the extractor loop: the first call reports a rate limit,
\* the cookies file is deleted and the call is made once more.
download_track_rate_limited(w, keywords) ==
    /\ pc[w] = "download_io"
    /\ CallOutcome(keywords, locals[w].extractor, 1) = "rate_limited"
    /\ pc' = [pc EXCEPT ![w] = "download_retry"]
    /\ locals' = [locals EXCEPT ![w].calls = @ + 1]
    /\ UNCHANGED <<jobs, nextId, now, rnow, cand, cur, grants, dones, orphans,
                   ret, csel, albums, subs, tracks, followed, tx, disk, keys, stopped, monitored, sched, subrows>>

\* download_track T2: the call returned a file; the track is committed as
\* done with its file_path.
download_track_success(w, keywords) ==
    /\ pc[w] \in {"download_io", "download_retry"}
    /\ CallOutcome(keywords, locals[w].extractor, Attempt(w)) = "ok"
    /\ LET t == jobs[cur[w]].payload IN
         tracks' = [tracks EXCEPT ![t].status = "done", ![t].file_path = Path]
    /\ pc' = [pc EXCEPT ![w] = "download_status"]
    /\ locals' = [locals EXCEPT ![w].calls = @ + 1]
    /\ UNCHANGED <<jobs, nextId, now, rnow, cand, cur, grants, dones, orphans,
                   ret, csel, albums, subs, followed, tx, disk, keys, stopped, monitored, sched, subrows>>

\* A download_track whose except branch sets track.status and returns
\* without the commit: the session's rollback drops the change.
download_track_uncommitted(w, keywords) ==
    /\ pc[w] \in {"download_io", "download_retry"}
    /\ LET outcome == CallOutcome(keywords, locals[w].extractor, Attempt(w)) IN
         /\ outcome # "ok"
         /\ locals' = [locals EXCEPT
                         ![w].calls = @ + 1,
                         ![w].compensated = TRUE,
                         ![w].retry_delay_seconds = RetryDelaySeconds(outcome)]
    /\ pc' = [pc EXCEPT ![w] = "fail_retry"]
    /\ UNCHANGED <<jobs, nextId, now, rnow, cand, cur, grants, dones, orphans,
                   ret, csel, albums, subs, tracks, followed, tx, disk, keys, stopped, monitored, sched, subrows>>

\* download_track, the except branch: the call raised (at the first turn a
\* rate limit ends the loop when the cookies file could not be deleted); the
\* track is committed as failed and the handler returns ok=False with a
\* retry delay.
download_track_failure(w, keywords) ==
    /\ pc[w] \in {"download_io", "download_retry"}
    /\ LET t == jobs[cur[w]].payload
           outcome == CallOutcome(keywords, locals[w].extractor, Attempt(w)) IN
         /\ outcome # "ok"
         /\ tracks' = [tracks EXCEPT ![t].status = "failed"]
         /\ locals' = [locals EXCEPT
                         ![w].calls = @ + 1,
                         ![w].compensated = TRUE,
                         ![w].retry_delay_seconds = RetryDelaySeconds(outcome)]
    /\ pc' = [pc EXCEPT ![w] = "fail_retry"]
    /\ UNCHANGED <<jobs, nextId, now, rnow, cand, cur, grants, dones, orphans,
                   ret, csel, albums, subs, followed, tx, disk, keys, stopped, monitored, sched, subrows>>

\* download_track, the except branch when commit_failed_status raises too
\* (the database stays locked through the three tries, or the write fails):
\* the error is logged, the session rolled back, and the handler returns
\* ok=False with the track as T1 committed it.
download_track_failure_error(w, keywords) ==
    /\ pc[w] \in {"download_io", "download_retry"}
    /\ LET outcome == CallOutcome(keywords, locals[w].extractor, Attempt(w)) IN
         /\ outcome # "ok"
         /\ locals' = [locals EXCEPT
                         ![w].calls = @ + 1,
                         ![w].compensated = FALSE,
                         ![w].retry_delay_seconds = RetryDelaySeconds(outcome)]
    /\ pc' = [pc EXCEPT ![w] = "fail_retry"]
    /\ UNCHANGED <<jobs, nextId, now, rnow, cand, cur, grants, dones, orphans,
                   ret, csel, albums, subs, tracks, followed, tx, disk, keys, stopped, monitored, sched, subrows>>

\* download_track T1 when commit_status raises (_db_operation_with_retry
\* gives up, or the error is not a lock): nothing is committed and the
\* except branch is entered; the error is no rate limit.
download_track_start_error(w) ==
    /\ pc[w] = "running"
    /\ jobs[cur[w]].type = "download_track"
    /\ Binds(jobs[cur[w]])
    /\ jobs[cur[w]].payload \in DOMAIN tracks
    /\ pc' = [pc EXCEPT ![w] = "download_except"]
    /\ locals' = [locals EXCEPT ![w] =
                    [NoLocals EXCEPT !.retry_delay_seconds = RetryDelaySeconds("error")]]
    /\ UNCHANGED <<jobs, nextId, now, rnow, cand, cur, grants, dones, orphans,
                   ret, csel, albums, subs, tracks, followed, tx, disk, keys, stopped, monitored, sched, subrows>>

\* download_track, the except branch after an error at T1: the track is
\* read again and committed as failed when commit_failed_status goes
\* through (committed), left as it is when it raises; ok=False is returned.
download_track_except(w, committed) ==
    /\ pc[w] = "download_except"
    /\ LET t == jobs[cur[w]].payload IN
         tracks' = IF committed THEN [tracks EXCEPT ![t].status = "failed"]
                   ELSE tracks
    /\ locals' = [locals EXCEPT ![w].compensated = committed]
    /\ pc' = [pc EXCEPT ![w] = "fail_retry"]
    /\ UNCHANGED <<jobs, nextId, now, rnow, cand, cur, grants, dones, orphans,
                   ret, csel, albums, subs, followed, tx, disk, keys, stopped, monitored, sched, subrows>>

\* download_track T4: the album's download status is computed and committed.
download_track_status(w) ==
    /\ pc[w] = "download_status"
    /\ LET t == jobs[cur[w]].payload IN
         subs' = StatusChecked(subs, tracks, tracks[t].album_id)
    /\ pc' = [pc EXCEPT ![w] = "download_lyrics"]
    /\ UNCHANGED <<jobs, nextId, now, rnow, cand, cur, grants, dones, orphans,
                   ret, csel, albums, tracks, followed, locals, tx, disk, keys, stopped, monitored, sched, subrows>>

\* download_track T5: a download_lyrics job for the track, and the return.
download_track_enqueue(w) ==
    /\ pc[w] = "download_lyrics"
    /\ enqueue_rows(<<NewJob("download_lyrics", jobs[cur[w]].payload, 0,
                             DefaultMaxAttempts, NULL, now)>>)
    /\ pc' = [pc EXCEPT ![w] = "ok"]
    /\ UNCHANGED <<now, rnow, cand, cur, orphans, ret, outside>>

\* What LRCLIB answers to download_lyrics: 200 with syncedLyrics, 200 with
\* plain lyrics only, 404, or no answer (the request raises).
LyricsResponses == {"synced", "plain", "not_found", "request_error"}

\* A download_lyrics that asks again within the hour whatever the answer.
RetrySoon(response) == 3600

\* download_lyrics: retry_delay_seconds of the result for an answer without
\* synced lyrics.
LyricsRetryDelay(response) ==
    IF response = "request_error" THEN 3600 ELSE 86400

\* download_lyrics with the given answer of LRCLIB: a track without a file
\* ends the handler with ok=False and no retry; synced lyrics are saved
\* next to the audio file and has_lyrics and lyrics_local are committed;
\* any other answer ends the handler with ok=False and a retry delay.
download_lyrics(w, response) ==
    /\ pc[w] = "running"
    /\ jobs[cur[w]].type = "download_lyrics"
    /\ Binds(jobs[cur[w]])
    /\ LET t == jobs[cur[w]].payload IN
         IF ~(t \in DOMAIN tracks /\ tracks[t].file_path # NULL)
         THEN /\ pc' = [pc EXCEPT ![w] = "fail_final"]
              /\ UNCHANGED <<tracks, locals>>
         ELSE IF response = "synced"
         THEN /\ tracks' = [tracks EXCEPT ![t].has_lyrics = TRUE,
                                       ![t].lyrics_local = Path]
              /\ pc' = [pc EXCEPT ![w] = "ok"]
              /\ UNCHANGED locals
         ELSE /\ pc' = [pc EXCEPT ![w] = "fail_retry"]
              /\ locals' = [locals EXCEPT
                              ![w].response = response,
                              ![w].retry_delay_seconds = LyricsRetryDelay(response)]
              /\ UNCHANGED tracks
    /\ UNCHANGED <<jobs, nextId, now, rnow, cand, cur, grants, dones, orphans,
                   ret, csel, albums, subs, followed, tx, disk, keys, stopped, monitored, sched, subrows>>

\* A run_job_task that asks for a retry when it cannot dispatch.
dispatch_retry(w) ==
    /\ pc[w] = "running"
    /\ ~Dispatches(jobs[cur[w]])
    /\ pc' = [pc EXCEPT ![w] = "fail_retry"]
    /\ locals' = [locals EXCEPT ![w].retry_delay_seconds = 300]
    /\ UNCHANGED <<jobs, nextId, now, rnow, cand, cur, grants, dones, orphans,
                   ret, csel, albums, subs, tracks, followed, tx, disk, keys, stopped, monitored, sched, subrows>>

\* run_job_task for a job it cannot dispatch: the type has no handler
\* (ok=False, "Unknown job type") or the call handler(session, **payload)
\* raises TypeError before the body runs (ok=False, "Invalid task
\* arguments"); the result has no retry delay.
dispatch_error(w) ==
    /\ pc[w] = "running"
    /\ ~Dispatches(jobs[cur[w]])
    /\ pc' = [pc EXCEPT ![w] = "fail_final"]
    /\ UNCHANGED <<jobs, nextId, now, rnow, cand, cur, grants, dones, orphans,
                   ret, csel, albums, subs, tracks, followed, locals, tx, disk,
                   keys, stopped, monitored, sched, subrows>>

\* POST /api/jobs/enqueue: payload["user_id"] is set and the job is
\* enqueued with the type and the payload of the request.
enqueue_job_endpoint(job_type, payload) ==
    /\ job_type # ""
    /\ enqueue_rows(<<ForUser(NewJob(job_type, payload, 0, DefaultMaxAttempts,
                                     NULL, now), 1)>>)
    /\ UNCHANGED <<now, pc, rnow, cand, cur, orphans, ret, outside>>

\* POST /api/tracks/{track_id}/ensure_lyrics: a job of type
\* ensure_track_lyrics with the keys track_id and user_id.
ensure_lyrics(track_id) ==
    /\ enqueue_rows(<<ForUser(NewJob("ensure_track_lyrics", track_id, 0,
                                     DefaultMaxAttempts, NULL, now), 1)>>)
    /\ UNCHANGED <<now, pc, rnow, cand, cur, orphans, ret, outside>>

\* Worker.run: the handler returned ok=True.
handler_ok(w) ==
    /\ pc[w] = "ok"
    /\ mark_done_return(w)
    /\ locals' = [locals EXCEPT ![w] = NoLocals]
    /\ UNCHANGED <<csel, albums, subs, tracks, followed, tx, disk, keys, stopped, monitored, sched, subrows>>

\* Worker.run: the handler returned ok=False with a retry delay.
handler_retry(w, retry_delay) ==
    /\ pc[w] = "fail_retry"
    /\ mark_failed_return(w, retry_delay)
    /\ locals' = [locals EXCEPT ![w] = NoLocals]
    /\ UNCHANGED <<csel, albums, subs, tracks, followed, tx, disk, keys, stopped, monitored, sched, subrows>>

\* Worker.run: the handler returned ok=False with the retry_delay_seconds
\* of its result.
handler_retry_result(w) ==
    /\ locals[w].retry_delay_seconds # NULL
    /\ handler_retry(w, locals[w].retry_delay_seconds)

\* Worker.run: the handler returned ok=False without a retry delay.
handler_failed(w) ==
    /\ pc[w] = "fail_final"
    /\ mark_failed_return(w, NULL)
    /\ locals' = [locals EXCEPT ![w] = NoLocals]
    /\ UNCHANGED <<csel, albums, subs, tracks, followed, tx, disk, keys, stopped, monitored, sched, subrows>>

\* download_track_by_videoid(video_id, ...) is entered by a process, for a
\* video no process has fetched or is fetching: _ensure_dirs and
\* _cleanup_partial_files (no partial file is modelled).
download_track_by_videoid(w, video_id) ==
    /\ pc[w] = "idle"
    /\ disk.music[video_id] = NULL
    /\ \A o \in Workers : locals[o].video_id # video_id
    /\ locals' = [locals EXCEPT ![w].video_id = video_id]
    /\ pc' = [pc EXCEPT ![w] = "dl_extract"]
    /\ UNCHANGED <<jobs, nextId, now, rnow, cand, cur, grants, dones, orphans,
                   ret, csel, albums, subs, tracks, followed, tx, disk, keys, stopped, monitored, sched, subrows>>

\* download_track_by_videoid, ydl.download([url]) with outtmpl
\* DOWNLOAD_DIR/song.%(ext)s: the audio of the video is written to
\* DOWNLOAD_DIR/song.<ext>, over whatever is there.
ydl_download(w) ==
    /\ pc[w] = "dl_extract"
    /\ disk' = [disk EXCEPT !.song = locals[w].video_id]
    /\ pc' = [pc EXCEPT ![w] = "dl_find"]
    /\ UNCHANGED <<jobs, nextId, now, rnow, cand, cur, grants, dones, orphans,
                   ret, csel, albums, subs, tracks, followed, locals, tx,
                   keys, stopped, monitored, sched, subrows>>

\* download_track_by_videoid, _find_downloaded_file and shutil.move: without
\* a song.* file FileNotFoundError is raised, else the file found is moved
\* to the destination named after the track of this call.
move_downloaded_file(w) ==
    /\ pc[w] = "dl_find"
    /\ IF disk.song = NULL
       THEN /\ pc' = [pc EXCEPT ![w] = "dl_raise"]
            /\ UNCHANGED disk
       ELSE /\ disk' = [song |-> NULL,
                        music |-> [disk.music EXCEPT
                                     ![locals[w].video_id] = disk.song]]
            /\ pc' = [pc EXCEPT ![w] = "dl_return"]
    /\ UNCHANGED <<jobs, nextId, now, rnow, cand, cur, grants, dones, orphans,
                   ret, csel, albums, subs, tracks, followed, locals, tx,
                   keys, stopped, monitored, sched, subrows>>

\* download_track_by_videoid returns the destination path or raises.
download_return(w) ==
    /\ pc[w] \in {"dl_return", "dl_raise"}
    /\ pc' = [pc EXCEPT ![w] = "idle"]
    /\ locals' = [locals EXCEPT ![w] = NoLocals]
    /\ UNCHANGED <<jobs, nextId, now, rnow, cand, cur, grants, dones, orphans,
                   ret, csel, albums, subs, tracks, followed, tx, disk, keys, stopped, monitored, sched, subrows>>

\* fetch_and_upsert_album, the loop over the album tracks: the ids under
\* which the tracks are upserted.
choose_track_ids ==
    /\ keys.ids = <<>>
    /\ keys' = [keys EXCEPT
                  !.ids = [idx \in DOMAIN keys.album |->
                             final_track_id(keys.album, keys.playlist, idx)]]
    /\ UNCHANGED <<jobs, nextId, now, pc, rnow, cand, cur, grants, dones,
                   orphans, ret, csel, albums, subs, tracks, followed, locals,
                   tx, disk, stopped, monitored, sched, subrows>>

\* POST /api/tracks/{track_id}/mark_done with a file_path in the body: the
\* track is committed as done with that file_path.
mark_done(track_id) ==
    /\ track_id \in DOMAIN tracks
    /\ tracks' = [tracks EXCEPT ![track_id].status = "done",
                                ![track_id].file_path = Path]
    /\ UNCHANGED <<jobs, nextId, now, pc, rnow, cand, cur, grants, dones,
                   orphans, ret, csel, albums, subs, followed, locals, tx, disk, keys, stopped, monitored, sched, subrows>>

\* enqueue_job(session, job_type="download_lyrics", payload={"track_id":
\* ...}), as download_track calls it at T5.
enqueue_download_lyrics(track_id) ==
    /\ nextId <= MaxQueue
    /\ enqueue_job("download_lyrics", track_id, 0, DefaultMaxAttempts, NULL)

\* follow_artist up to its enqueue loop: the artist, its albums and their
\* tracks are fetched and upserted in the request's session, the artist is
\* marked followed, the subscriptions are added and the tracks to download
\* are collected.  Nothing is committed.  (For an artist that is followed
\* already the endpoint returns at once and changes nothing.)
follow_artist_begin ==
    /\ ~tx.on
    /\ ~followed
    /\ LET pre == [t \in UpstreamTracks |->
                     IF t \in DOMAIN tracks
                     THEN [status     |-> tracks[t].status,
                           file_path  |-> tracks[t].file_path,
                           has_lyrics |-> tracks[t].has_lyrics]
                     ELSE Absent]
           wanted == {t \in UpstreamTracks :
                        ~KeepsTrack(pre[t]) \/ pre[t].status \in {"new", "failed"}}
       IN tx' = [on |-> TRUE, followed |-> TRUE, subs |-> UpstreamAlbums,
                 pre |-> pre, todo |-> Ascending(wanted), jobs |-> <<>>,
                 inserts |-> {a \in UpstreamAlbums :
                                Subscribed(subrows[a] > 0)}]
    /\ UNCHANGED <<jobs, nextId, now, pc, rnow, cand, cur, grants, dones,
                   orphans, ret, csel, albums, subs, tracks, followed, locals,
                   disk, keys, stopped, monitored, sched, subrows>>

\* session.commit() of the request's session: everything it has staged
\* becomes visible at once.
session_commit(session) ==
    /\ followed' = (followed \/ session.followed)
    /\ subs' = [a \in DOMAIN subs \cup session.subs |->
                  IF a \in DOMAIN subs THEN subs[a] ELSE "pending"]
    /\ subrows' = Inserted1(subrows, session.inserts)
    /\ albums' = IF session.pre = <<>> THEN albums
                 ELSE [a \in DOMAIN albums \cup UpstreamAlbums |->
                         IF a \in UpstreamAlbums THEN Artist ELSE albums[a]]
    /\ tracks' = IF session.pre = <<>> THEN tracks
                 ELSE [t \in DOMAIN tracks \cup UpstreamTracks |->
                         IF t \in UpstreamTracks
                         THEN UpsertedTrack(session.pre[t],
                                IF t \in DOMAIN tracks THEN tracks[t]
                                ELSE NewTrack(1), 1)
                         ELSE tracks[t]]
    /\ enqueue_rows(session.jobs)

\* follow_artist: one turn of its enqueue loop, enqueue_job(db,
\* job_type="download_track", ..., commit=False).
follow_artist_enqueue ==
    /\ tx.on
    /\ tx.todo # <<>>
    /\ LET row == ForUser(NewJob("download_track", Head(tx.todo), 0,
                                 DefaultMaxAttempts, NULL, now), 1)
           staged == [tx EXCEPT !.jobs = Append(@, row), !.todo = Tail(@)] IN
         IF FollowCommits
         THEN /\ session_commit(staged)
              /\ tx' = [staged EXCEPT !.followed = FALSE, !.subs = {},
                                      !.pre = <<>>, !.jobs = <<>>,
                                      !.inserts = {}]
         ELSE /\ tx' = staged
              /\ UNCHANGED <<jobs, nextId, grants, dones, albums, subs, tracks,
                             followed, subrows>>
    /\ UNCHANGED <<now, pc, rnow, cand, cur, orphans, ret, csel, locals, disk, keys, stopped, monitored, sched>>

\* follow_artist: db.commit() after the loop ("Commit everything once at the
\* end"), and the response.
follow_artist_commit ==
    /\ tx.on
    /\ tx.todo = <<>>
    /\ session_commit(tx)
    /\ tx' = NoTx
    /\ UNCHANGED <<now, pc, rnow, cand, cur, orphans, ret, csel, locals, disk, keys, stopped, monitored, sched>>

\* follow_artist: an exception before the commit; db.rollback() and an
\* error response.
follow_artist_rollback ==
    /\ tx.on
    /\ tx' = NoTx
    /\ UNCHANGED <<jobs, nextId, now, pc, rnow, cand, cur, grants, dones,
                   orphans, ret, csel, albums, subs, tracks, followed, locals,
                   disk, keys, stopped, monitored, sched, subrows>>

\* Every operation of the queue, of two workers and of the operator, on one
\* job row: rows do not read or write each other, and the one place where
\* several rows meet, the order in which reserve_job takes them, is
\* SpecPool's.
Next ==
    \/ Tick
    \/ /\ JobIds = {}
       /\ \E p \in Priorities, m \in MaxAttemptsArgs, s \in {NULL, now + 1} :
            enqueue_job("download_track", 1, p, m, s)
    \/ \E w \in Workers : reserve_job_select(w)
    \/ \E w \in Workers : reserve_job_commit(w)
    \/ \E w \in Workers : WorkerDone(w)
    \/ \E w \in Workers, d \in RetryDelays \cup {NULL} : WorkerFailed(w, d)
    \/ \E w \in Workers : Crash(w)
    \/ \E j \in JobIds : cancel_job(j)
    \/ \E j \in JobIds : cancel_job_endpoint(j)
    \/ \E j \in JobIds, d \in RequeueDelays : requeue_job(j, d)

Spec == Init /\ [][Next]_vars

\* The steps of one worker that is signalled while it works.
WorkerNext(w) ==
    \/ reserve_job_select(w)
    \/ reserve_job_commit(w)
    \/ WorkerDone(w)
    \/ \E d \in {NULL, 1} : WorkerFailed(w, d)
    \/ worker_exit(w)

\* Workers that get SIGINT or SIGTERM at any moment, next to jobs that are
\* enqueued.
NextShutdown ==
    \/ Tick
    \/ /\ nextId <= MaxJobs
       /\ enqueue_job("download_track", 1, 0, DefaultMaxAttempts, NULL)
    \/ \E w \in Workers : handle_signal(w)
    \/ \E w \in Workers : WorkerNext(w)

\* Every handler returns and every worker gets to run.
SpecShutdown ==
    Init /\ [][NextShutdown]_vars /\ \A w \in Workers : WF_vars(WorkerNext(w))

\* ------------------------------------------- the scheduler's artist-sync pass

\* follow_artist: the artist is followed and has a subscription; one it had
\* before keeps its last_synced_at.
follow(a) ==
    /\ ~monitored[a].followed
    /\ monitored' = [monitored EXCEPT ![a].followed = TRUE,
                                      ![a].subscribed = TRUE]
    /\ UNCHANGED <<jobs, nextId, now, pc, rnow, cand, cur, grants, dones,
                   orphans, ret, csel, albums, subs, tracks, followed, locals,
                   tx, disk, keys, stopped, sched, subrows>>

\* unfollow_artist: followed is cleared; the subscription row is disabled,
\* not deleted.
unfollow(a) ==
    /\ monitored[a].followed
    /\ monitored' = [monitored EXCEPT ![a].followed = FALSE]
    /\ UNCHANGED <<jobs, nextId, now, pc, rnow, cand, cur, grants, dones,
                   orphans, ret, csel, albums, subs, tracks, followed, locals,
                   tx, disk, keys, stopped, sched, subrows>>

\* mark_artist_synced, at the end of a sync_artist job of the artist: the
\* subscription, if there is one, gets last_synced_at = now_utc().
mark_artist_synced(a) ==
    /\ \E j \in JobIds : jobs[j].type = "sync_artist" /\ jobs[j].payload = a
    /\ monitored[a].subscribed
    /\ monitored[a].last_synced_at # now
    /\ monitored' = MarkedSynced(monitored, a, "none")
    /\ UNCHANGED <<jobs, nextId, now, pc, rnow, cand, cur, grants, dones,
                   orphans, ret, csel, albums, subs, tracks, followed, locals,
                   tx, disk, keys, stopped, sched, subrows>>

\* An hour passes.
hour ==
    /\ now < MaxHours
    /\ now' = now + 1
    /\ UNCHANGED <<jobs, nextId, pc, rnow, cand, cur, grants, dones, orphans,
                   ret, outside>>

\* Scheduler.sync_monitored_artists: one pass.  An exception of
\* get_monitored_artists_needing_sync is logged and the pass returns; else a
\* sync_artist job at priority 5 is enqueued for each artist of the list.
\* ret is what the pass logs: the exception, or the count of jobs enqueued.
sync_monitored_artists ==
    LET artists == get_monitored_artists_needing_sync(SyncIntervalHours)
        rows == [i \in 1..Cardinality(artists.due_artists) |->
                   NewJob("sync_artist", InOrder(artists.due_artists)[i], 5,
                          DefaultMaxAttempts, NULL, now)]
    IN  /\ IF artists.raised
           THEN /\ ret' = TypeError
                /\ UNCHANGED <<jobs, nextId, grants, dones>>
           ELSE /\ enqueue_rows(rows)
                /\ ret' = Len(rows)
        /\ UNCHANGED <<now, pc, rnow, cand, cur, orphans, outside>>

\* The artists are followed, unfollowed and synced while the hours pass and
\* the scheduler makes its passes.
NextScheduler ==
    \/ \E a \in ArtistIds : follow(a)
    \/ \E a \in ArtistIds : unfollow(a)
    \/ \E a \in ArtistIds : mark_artist_synced(a)
    \/ hour
    \/ sync_monitored_artists

SpecScheduler == Init /\ [][NextScheduler]_vars

\* ------------------------------------------------- the scheduler's loop thread

\* Scheduler.start, under _running_lock: nothing when the thread of _thread
\* is alive; else _stopped is cleared and a new thread runs _run_loop.
start ==
    /\ sched.joining = NULL
    /\ IF sched.thread # NULL /\ is_alive(sched.thread)
       THEN UNCHANGED sched
       ELSE \E t \in ThreadIds :
              /\ sched.th[t] = "unborn"
              /\ \A u \in ThreadIds : u < t => sched.th[u] # "unborn"
              /\ sched' = [sched EXCEPT !.stopped = FALSE, !.thread = t,
                                        !.th[t] = "started"]
    /\ UNCHANGED <<jobs, nextId, now, pc, rnow, cand, cur, grants, dones,
                   orphans, ret, csel, albums, subs, tracks, followed, locals,
                   tx, disk, keys, stopped, monitored, subrows>>

\* Scheduler.stop up to its join: _stopped is set; with no live thread the
\* call ends here and _thread is None.
stop ==
    /\ sched.joining = NULL
    /\ IF sched.thread # NULL /\ is_alive(sched.thread)
       THEN sched' = [sched EXCEPT !.stopped = TRUE, !.joining = sched.thread]
       ELSE sched' = [sched EXCEPT !.stopped = TRUE, !.thread = NULL]
    /\ UNCHANGED <<jobs, nextId, now, pc, rnow, cand, cur, grants, dones,
                   orphans, ret, csel, albums, subs, tracks, followed, locals,
                   tx, disk, keys, stopped, monitored, subrows>>

\* Scheduler.stop, th.join(timeout=join_timeout) and after: the join returns
\* when the thread has ended or when the timeout has passed, and _thread is
\* None then.
stop_join ==
    /\ sched.joining # NULL
    /\ sched' = [sched EXCEPT !.joining = NULL, !.thread = NULL]
    /\ UNCHANGED <<jobs, nextId, now, pc, rnow, cand, cur, grants, dones,
                   orphans, ret, csel, albums, subs, tracks, followed, locals,
                   tx, disk, keys, stopped, monitored, subrows>>

\* Scheduler._run_loop, its first statement: from .deps import wait_for_db.
\* backend/deps.py defines no wait_for_db, so the import raises ImportError
\* outside every try of _run_loop and the thread ends.
run_loop_import(t) ==
    /\ sched.th[t] = "started"
    /\ sched' = [sched EXCEPT !.th[t] = "dead"]
    /\ UNCHANGED <<jobs, nextId, now, pc, rnow, cand, cur, grants, dones,
                   orphans, ret, csel, albums, subs, tracks, followed, locals,
                   tx, disk, keys, stopped, monitored, subrows>>

\* The application starts and stops its scheduler while the loop threads run.
NextStartup ==
    \/ start
    \/ stop
    \/ stop_join
    \/ \E t \in ThreadIds : run_loop_import(t)

SpecStartup == Init /\ [][NextStartup]_vars

\* deps.wait_for_db as section 4.5 of the specification has it: it returns
\* once the database is reachable, and _run_loop goes on to its while loop.
wait_for_db(t) ==
    /\ sched.th[t] = "started"
    /\ sched' = [sched EXCEPT !.th[t] = "check"]
    /\ UNCHANGED <<jobs, nextId, now, pc, rnow, cand, cur, grants, dones,
                   orphans, ret, csel, albums, subs, tracks, followed, locals,
                   tx, disk, keys, stopped, monitored, subrows>>

\* Scheduler._run_loop, while not self._stopped.is_set(): with the flag set
\* the loop is left and the thread ends, else a pass begins.
loop_check(t) ==
    /\ sched.th[t] = "check"
    /\ sched' = [sched EXCEPT !.th[t] = IF sched.stopped THEN "dead" ELSE "pass"]
    /\ UNCHANGED <<jobs, nextId, now, pc, rnow, cand, cur, grants, dones,
                   orphans, ret, csel, albums, subs, tracks, followed, locals,
                   tx, disk, keys, stopped, monitored, subrows>>

\* Scheduler._run_loop, one pass: the cadences that are due are run, each in
\* its own try.
loop_pass(t) ==
    /\ sched.th[t] = "pass"
    /\ sched' = [sched EXCEPT !.th[t] = "wait"]
    /\ UNCHANGED <<jobs, nextId, now, pc, rnow, cand, cur, grants, dones,
                   orphans, ret, csel, albums, subs, tracks, followed, locals,
                   tx, disk, keys, stopped, monitored, subrows>>

\* Scheduler._run_loop, self._stopped.wait(timeout=60.0): it returns when
\* the flag is set or the minute is over.
loop_wait(t) ==
    /\ sched.th[t] = "wait"
    /\ sched' = [sched EXCEPT !.th[t] = "check"]
    /\ UNCHANGED <<jobs, nextId, now, pc, rnow, cand, cur, grants, dones,
                   orphans, ret, csel, albums, subs, tracks, followed, locals,
                   tx, disk, keys, stopped, monitored, subrows>>

\* The application starts and stops its scheduler, with loop threads that
\* got past wait_for_db.
NextLoop ==
    \/ start
    \/ stop
    \/ stop_join
    \/ \E t \in ThreadIds : wait_for_db(t)
    \/ \E t \in ThreadIds : loop_check(t)
    \/ \E t \in ThreadIds : loop_pass(t)
    \/ \E t \in ThreadIds : loop_wait(t)

SpecLoop == Init /\ [][NextLoop]_vars

\* K workers and M jobs whose handlers all return ok=True: jobs are enqueued,
\* reserved and marked done, and nothing else touches the queue.
NextPool ==
    \/ Tick
    \/ /\ nextId <= MaxJobs
       /\ \E p \in Priorities, m \in {a \in MaxAttemptsArgs : a > 0},
             s \in {NULL, now + 1} :
            enqueue_job("download_track", 1, p, m, s)
    \/ \E w \in Workers : reserve_job_select(w)
    \/ \E w \in Workers : reserve_job_commit(w)
    \/ \E w \in Workers : WorkerDone(w)

SpecPool == Init /\ [][NextPool]_vars

\* Workers whose handlers return ok=True or ok=False, next to a database
\* that may refuse the commit of mark_job_done or mark_job_failed.
NextMark ==
    \/ Tick
    \/ /\ nextId <= MaxJobs
       /\ \E m \in {a \in MaxAttemptsArgs : a > 0} :
            enqueue_job("download_track", 1, 0, m, NULL)
    \/ \E w \in Workers : reserve_job_select(w)
    \/ \E w \in Workers : reserve_job_commit(w)
    \/ \E w \in Workers : WorkerDone(w)
    \/ \E w \in Workers, d \in {NULL, 1} : WorkerFailed(w, d)
    \/ \E w \in Workers : mark_error_return(w)

SpecMark == Init /\ [][NextMark]_vars

\* The callers of enqueue_job, each with its own arguments.
NextEnqueue ==
    \/ Tick
    \/ /\ nextId <= MaxJobs
       /\ \E t \in JobTypes, pl \in Payloads, s \in {NULL, now + 1},
             p \in Priorities, m \in MaxAttemptsArgs, u \in UserIdArgs :
            enqueue_job_call(t, pl, s, p, m, u)

SpecEnqueue == Init /\ [][NextEnqueue]_vars

\* The scheduler's cleanup next to one worker and the operator's requeue.
NextCleanup ==
    \/ Tick
    \/ /\ nextId <= MaxJobs
       /\ enqueue_job("download_track", 1, 0, 1, NULL)
    \/ reserve_job_select("w1")
    \/ reserve_job_commit("w1")
    \/ WorkerDone("w1")
    \/ WorkerFailed("w1", NULL)
    \/ \E j \in JobIds : requeue_job(j, NULL)
    \/ \E d \in DaysOld, k \in BOOLEAN : cleanup_select(d, k)
    \/ cleanup_commit

SpecCleanup == Init /\ [][NextCleanup]_vars

\* Scenario S1: the artist is followed, one sync_artist job is enqueued, and
\* the workers run what follows from it.
InitCatalog ==
    /\ InitQueue
    /\ keys = NoKeys
    /\ albums = <<>>
    /\ subs = <<>>
    /\ subrows = [a \in UpstreamAlbums |-> IF a \in DOMAIN subs THEN 1 ELSE 0]
    /\ tracks = <<>>
    /\ followed = TRUE

NextS1 ==
    \/ (jobs = <<>> /\ schedule_sync)
    \/ \E w \in Workers : reserve_job_select(w)
    \/ \E w \in Workers : reserve_job_commit(w)
    \/ \E w \in Workers : sync_artist_fetch(w)
    \/ \E w \in Workers : sync_artist_banner(w, TRUE)
    \/ \E w \in Workers : sync_artist_read(w)
    \/ \E w \in Workers : sync_artist_select(w)
    \/ \E w \in Workers : sync_artist_subscribe(w)
    \/ \E w \in Workers : sync_artist_enqueue(w)
    \/ \E w \in Workers : import_album_read(w)
    \/ \E w \in Workers : import_album_commit(w)
    \/ \E w \in Workers : import_album_enqueue(w)
    \/ \E w \in Workers : download_track_start(w, Succeeds)
    \/ \E w \in Workers : download_track_failure(w, PassedKeywords)
    \/ \E w \in Workers : handler_ok(w)
    \/ \E w \in Workers, d \in RetryDelays : handler_retry(w, d)

SpecS1 == InitCatalog /\ [][NextS1]_vars

\* The clock advances for as long as a queued job waits for its scheduled_at.
wait_for_retry ==
    /\ \E j \in JobIds :
         jobs[j].status = "queued" /\ jobs[j].scheduled_at > now
    /\ now' = now + 1
    /\ UNCHANGED <<jobs, nextId, pc, rnow, cand, cur, grants, dones, orphans,
                   ret, outside>>

\* The steps of one worker whose handlers return ok=True or ok=False, with a
\* retry delay or without.
WorkerRuns(w) ==
    \/ reserve_job_select(w)
    \/ reserve_job_commit(w)
    \/ WorkerDone(w)
    \/ \E d \in {NULL, 1} : WorkerFailed(w, d)

\* Jobs with max_attempts >= 1 are enqueued and the workers run them; nothing
\* is cancelled or requeued by hand.
NextTerminate ==
    \/ wait_for_retry
    \/ /\ nextId <= MaxJobs
       /\ \E m \in {a \in MaxAttemptsArgs : a >= 1} :
            enqueue_job("download_track", 1, 0, m, NULL)
    \/ \E w \in Workers : WorkerRuns(w)

\* Every worker runs fairly and time goes past every scheduled_at.
SpecTerminate ==
    /\ Init /\ [][NextTerminate]_vars
    /\ WF_vars(wait_for_retry)
    /\ \A w \in Workers : WF_vars(WorkerRuns(w))

\* Scenario S1 with one worker that runs fairly while time passes: an
\* extractor that succeeds, a banner download that succeeds.  A download
\* that fails asks for a retry after 300 s, one tick of the clock.
NextS1Fair ==
    \/ Tick
    \/ wait_for_retry
    \/ (jobs = <<>> /\ schedule_sync)
    \/ reserve_job_select("w1")
    \/ reserve_job_commit("w1")
    \/ sync_artist_fetch("w1")
    \/ sync_artist_banner("w1", TRUE)
    \/ sync_artist_read("w1")
    \/ sync_artist_select("w1")
    \/ sync_artist_subscribe("w1")
    \/ sync_artist_enqueue("w1")
    \/ import_album_read("w1")
    \/ import_album_commit("w1")
    \/ import_album_enqueue("w1")
    \/ download_track_start("w1", Succeeds)
    \/ download_track_failure("w1", PassedKeywords)
    \/ handler_ok("w1")
    \/ handler_retry("w1", 1)

SpecS1Fair == InitCatalog /\ [][NextS1Fair]_vars /\ WF_vars(NextS1Fair)

\* One worker runs what follows from a sync_artist job, with an extractor
\* that may fail, while the operator requeues finished jobs.
NextRedo ==
    \/ (jobs = <<>> /\ schedule_sync)
    \/ reserve_job_select("w1")
    \/ reserve_job_commit("w1")
    \/ sync_artist_fetch("w1")
    \/ sync_artist_banner("w1", TRUE)
    \/ sync_artist_read("w1")
    \/ sync_artist_select("w1")
    \/ sync_artist_subscribe("w1")
    \/ sync_artist_enqueue("w1")
    \/ import_album_read("w1")
    \/ import_album_commit("w1")
    \/ import_album_enqueue("w1")
    \/ download_track_start("w1", ExtractorBehaviours)
    \/ download_track_failure("w1", PassedKeywords)
    \/ \E t \in DOMAIN tracks :
         /\ pc["w1"] = "idle"
         /\ tracks[t].file_path = NULL
         /\ mark_done(t)
    \/ \E t \in DOMAIN tracks :
         /\ pc["w1"] = "idle"
         /\ tracks[t].file_path # NULL
         /\ \A j \in JobIds : jobs[j].type # "download_lyrics"
         /\ enqueue_download_lyrics(t)
    \/ download_lyrics("w1", "synced")
    \/ handler_ok("w1")
    \/ \E d \in RetryDelays : handler_retry("w1", d)
    \/ \E j \in JobIds : jobs[j].status \in Terminal /\ requeue_job(j, NULL)

SpecRedo == InitCatalog /\ [][NextRedo]_vars

\* The scheduler enqueues sync_artist jobs for the followed artist and the
\* workers run them; the import_album jobs wait in the queue.
NextSync ==
    \/ /\ Cardinality({j \in JobIds : jobs[j].type = "sync_artist"}) < MaxSyncs
       /\ schedule_sync
    \/ \E w \in Workers : reserve_job_select(w)
    \/ \E w \in Workers : reserve_job_commit(w)
    \/ \E w \in Workers : sync_artist_fetch(w)
    \/ \E w \in Workers, ok \in BOOLEAN : sync_artist_banner(w, ok)
    \/ \E w \in Workers : sync_artist_read(w)
    \/ \E w \in Workers : sync_artist_select(w)
    \/ \E w \in Workers : sync_artist_subscribe(w)
    \/ \E w \in Workers : sync_artist_enqueue(w)
    \/ \E w \in Workers : handler_ok(w)
    \/ \E w \in Workers, d \in RetryDelays : handler_retry(w, d)

SpecSync == InitCatalog /\ [][NextSync]_vars

\* The artist is followed at some moment, the hours pass, sync_artist jobs
\* are enqueued for it and a worker runs them, with a banner download, a
\* catalog fetch or a commit that may fail.
NextRecord ==
    \/ follow(Artist)
    \/ hour
    \/ /\ Cardinality({j \in JobIds : jobs[j].type = "sync_artist"}) < MaxSyncs
       /\ schedule_sync
    \/ reserve_job_select("w1")
    \/ reserve_job_commit("w1")
    \/ sync_artist_fetch("w1")
    \/ \E ok \in BOOLEAN : sync_artist_banner("w1", ok)
    \/ sync_artist_error("w1")
    \/ sync_artist_read("w1")
    \/ sync_artist_select("w1")
    \/ sync_artist_subscribe("w1")
    \/ sync_artist_enqueue("w1")
    \/ handler_ok("w1")
    \/ handler_retry("w1", 1)

SpecRecord == InitCatalog /\ [][NextRecord]_vars

\* enqueue_job(session, "import_album", {"browse_id": ...}): an import
\* without the artist_id key.
enqueue_import_album ==
    \E a \in UpstreamAlbums :
        enqueue_job("import_album", a, 0, DefaultMaxAttempts, NULL)

\* One worker and an album imported without an artist_id.
NextImport ==
    \/ (jobs = <<>> /\ enqueue_import_album)
    \/ reserve_job_select("w1")
    \/ reserve_job_commit("w1")
    \/ import_album_read("w1")
    \/ import_album_commit("w1")
    \/ import_album_enqueue("w1")
    \/ download_track_start("w1", ExtractorBehaviours)
    \/ download_track_failure("w1", PassedKeywords)
    \/ handler_ok("w1")
    \/ \E d \in RetryDelays : handler_retry("w1", d)

SpecImport == InitCatalog /\ [][NextImport]_vars

\* One worker, an imported album, and commits that may raise in
\* download_track.
NextCompensate ==
    \/ (jobs = <<>> /\ enqueue_import_album)
    \/ reserve_job_select("w1")
    \/ reserve_job_commit("w1")
    \/ import_album_read("w1")
    \/ import_album_commit("w1")
    \/ import_album_enqueue("w1")
    \/ download_track_start("w1", ExtractorBehaviours)
    \/ download_track_start_error("w1")
    \/ download_track_failure("w1", PassedKeywords)
    \/ download_track_failure_error("w1", PassedKeywords)
    \/ \E committed \in BOOLEAN : download_track_except("w1", committed)
    \/ handler_ok("w1")
    \/ \E d \in RetryDelays : handler_retry("w1", d)

SpecCompensate == InitCatalog /\ [][NextCompensate]_vars

\* An album that is imported twice by one worker, with downloads that fail,
\* while a request marks tracks done with a file at any moment of a run.
NextUndo ==
    \/ /\ Cardinality({j \in JobIds : jobs[j].type = "import_album"}) < 2
       /\ enqueue_import_album
    \/ reserve_job_select("w1")
    \/ reserve_job_commit("w1")
    \/ import_album_read("w1")
    \/ import_album_commit("w1")
    \/ import_album_enqueue("w1")
    \/ download_track_start("w1", ExtractorBehaviours)
    \/ download_track_failure("w1", PassedKeywords)
    \/ \E t \in DOMAIN tracks : tracks[t].file_path = NULL /\ mark_done(t)
    \/ handler_ok("w1")
    \/ handler_retry("w1", 1)

SpecUndo == InitCatalog /\ [][NextUndo]_vars

\* Processes that call download_track_by_videoid for different videos, with
\* a yt-dlp that succeeds.
NextDownload ==
    \/ \E w \in Workers, v \in VideoIds : download_track_by_videoid(w, v)
    \/ \E w \in Workers : ydl_download(w)
    \/ \E w \in Workers : move_downloaded_file(w)
    \/ \E w \in Workers : download_return(w)

SpecDownload == Init /\ [][NextDownload]_vars

\* An album of up to MaxAlbumTracks tracks and its playlist, with any titles.
InitKeys ==
    /\ InitQueue
    /\ albums = <<>>
    /\ subs = <<>>
    /\ subrows = [a \in UpstreamAlbums |-> IF a \in DOMAIN subs THEN 1 ELSE 0]
    /\ tracks = <<>>
    /\ followed = FALSE
    /\ \E n \in 1..MaxAlbumTracks, m \in 0..MaxAlbumTracks :
         \E album_titles \in [1..n -> Titles], playlist_titles \in [1..m -> Titles] :
           keys = [album |-> [i \in 1..n |->
                                [id |-> VideoId(i), title |-> album_titles[i]]],
                   playlist |-> [i \in 1..m |->
                                   [id |-> AudioId(i), title |-> playlist_titles[i]]],
                   ids |-> <<>>]

NextKeys == choose_track_ids

SpecKeys == InitKeys /\ [][NextKeys]_vars

\* A follow_artist request next to the workers; the payloads of its jobs
\* have the key user_id.
NextFollow ==
    \/ Tick
    \/ follow_artist_begin
    \/ follow_artist_enqueue
    \/ follow_artist_commit
    \/ follow_artist_rollback
    \/ \E w \in Workers : reserve_job_select(w)
    \/ \E w \in Workers : reserve_job_commit(w)
    \/ \E w \in Workers : dispatch_error(w)
    \/ \E w \in Workers : handler_failed(w)

SpecFollow == Init /\ [][NextFollow]_vars

\* A subscribed album with any tracks in any statuses, and the computation
\* of its download status.
InitAggregate ==
    /\ InitQueue
    /\ keys = NoKeys
    /\ albums = [a \in UpstreamAlbums |-> Artist]
    /\ subs = [a \in UpstreamAlbums |-> "pending"]
    /\ subrows = [a \in UpstreamAlbums |-> IF a \in DOMAIN subs THEN 1 ELSE 0]
    /\ followed = TRUE
    /\ \E n \in 0..MaxTracks :
         tracks \in [1..n -> {[NewTrack(1) EXCEPT
                                 !.status = st,
                                 !.file_path = IF st = "done" THEN Path ELSE NULL]
                              : st \in TrackStatuses}]

NextAggregate ==
    \E a \in UpstreamAlbums : check_and_update_album_download_status(a)

SpecAggregate == InitAggregate /\ [][NextAggregate]_vars

\* download_lyrics jobs for the tracks of a catalog, one worker, the clock
\* in seconds.
NextLyrics ==
    \/ Tick
    \/ \E t \in 1..MaxTracks :
         /\ Cardinality(JobIds) < MaxJobs
         /\ enqueue_download_lyrics(t)
    \/ reserve_job_select("w1")
    \/ reserve_job_commit("w1")
    \/ \E response \in LyricsResponses : download_lyrics("w1", response)
    \/ handler_ok("w1")
    \/ handler_retry_result("w1")
    \/ handler_failed("w1")

SpecLyrics == InitAggregate /\ [][NextLyrics]_vars

\* Jobs the API enqueues, with the user_id key or a type without a handler,
\* and download_lyrics jobs as download_track enqueues them; one worker.
NextDispatch ==
    \/ /\ Cardinality(JobIds) < MaxJobs
       /\ \/ \E t \in {"download_track", "download_lyrics"},
                pl \in {EmptyPayload, 1} : enqueue_job_endpoint(t, pl)
          \/ ensure_lyrics(1)
          \/ enqueue_download_lyrics(1)
    \/ reserve_job_select("w1")
    \/ reserve_job_commit("w1")
    \/ dispatch_error("w1")
    \/ \E response \in LyricsResponses : download_lyrics("w1", response)
    \/ handler_ok("w1")
    \/ handler_retry_result("w1")
    \/ handler_failed("w1")

SpecDispatch == InitAggregate /\ [][NextDispatch]_vars
\* ----------------------------------------------------------------- claims

\* C1 (at-most-one reservation): no job is returned by two reserve_job calls
\* unless it was written back as queued between the two returns.
AtMostOneReservation ==
    \A j \in JobIds : grants[j] <= 1

\* C2 (eligibility): when reserve_job returns job j, the row of j is, at that
\* commit, queued with attempts < max_attempts and scheduled_at NULL or not
\* after the reserve's now.
ReservedOnlyIfEligible ==
    [][\A w \in Workers :
         reserve_job_commit(w) => Eligible(jobs[cand[w].id], rnow[w])]_vars

\* C3 (ordering): when reserve_job returns job B, no job A is eligible that
\* has a higher priority, or the same priority and an earlier created_at.
ReservedInOrder ==
    [][\A w \in Workers :
         reserve_job_commit(w) =>
           \A a \in JobIds :
             Eligible(jobs[a], rnow[w])
               => ~OrderedBefore(jobs[a], jobs[cand[w].id])]_vars

AttemptsWithinMax ==
    \A j \in JobIds : jobs[j].attempts <= jobs[j].max_attempts

MarkDoneOnlyIfReserved ==
    [][\A w \in Workers :
         WorkerDone(w) /\ jobs[cur[w]].status = "cancelled"
           => jobs'[cur[w]] = jobs[cur[w]]]_vars

\* C8: cancel_job on a done, failed or cancelled job returns False and
\* changes nothing; on a queued or reserved job it returns True and sets
\* status cancelled, finished_at now and the cancellation text.
CancelOnlyIfLive ==
    [][\A j \in JobIds :
         cancel_job(j) =>
           IF jobs[j].status \in Terminal
           THEN ~CancelReturns(jobs[j]) /\ jobs'[j] = jobs[j]
           ELSE /\ CancelReturns(jobs[j])
                /\ jobs'[j].status = "cancelled"
                /\ jobs'[j].finished_at = now
                /\ jobs'[j].last_error = ErrCancelled]_vars

\* C9 (crash safety): the job of a killed worker is picked by no SELECT of
\* reserve_job, and so returned by no reserve_job begun after the kill,
\* until the operator requeues it.
OrphanNotReservedAgain ==
    [][\A w \in Workers :
         pc[w] = "idle" /\ pc'[w] = "selected"
           => cand'[w].id \notin orphans]_vars

\* C10 (exactly-once completion): with handlers that all return ok=True,
\* every job is dispatched to a handler at most once and marked done at
\* most once.
ExactlyOnceCompletion ==
    \A j \in JobIds :
        /\ dones[j] <= 1
        /\ jobs[j].status = "done" => grants[j] = 1 /\ jobs[j].attempts = 1

\* C11 (attempts are counted monotonically): no operation on an existing job
\* row lowers its attempts, and attempts grow, by exactly 1, only when
\* reserve_job returns the job.
AttemptsMonotone ==
    [][\A j \in JobIds :
         j \in DOMAIN jobs' =>
           /\ jobs'[j].attempts >= jobs[j].attempts
           /\ jobs'[j].attempts > jobs[j].attempts =>
                /\ jobs'[j].attempts = jobs[j].attempts + 1
                /\ \E w \in Workers : reserve_job_commit(w)]_vars

\* C12 (deferred-commit enqueue): no job of a follow_artist request is in the
\* table, and so none can be reserved, before the request commits or when
\* it rolls back; the followed flag, the album subscriptions and all the
\* download_track jobs of the request are committed together or not at all.
FollowVisibleTogether ==
    IF followed
    THEN /\ UpstreamAlbums \subseteq DOMAIN subs
         /\ {jobs[j].payload : j \in JobIds} = UpstreamTracks
         /\ \A j \in JobIds : jobs[j].type = "download_track"
    ELSE /\ subs = <<>>
         /\ JobIds = {}
         /\ \A w \in Workers : pc[w] = "idle"

\* C12 witness: the request has committed and a worker has reserved one of
\* its jobs.
FollowVisibleTogetherWitness ==
    /\ followed
    /\ ~tx.on
    /\ Cardinality(JobIds) = Cardinality(UpstreamTracks)
    /\ \E j \in JobIds : jobs[j].status = "reserved"

\* C13 (enqueue): a call of enqueue_job with a job type, a payload and the
\* other arguments, user_id among them or not, inserts exactly one row that
\* is queued with attempts 0 and carries the arguments, returns it and
\* changes no other row.
EnqueueInsertsGivenRow ==
    [][\A t \in JobTypes \ {""}, pl \in Payloads \ {NULL}, s \in {NULL, now + 1},
          p \in Priorities, m \in MaxAttemptsArgs, u \in UserIdArgs :
         enqueue_job_call(t, pl, s, p, m, u) =>
           /\ DOMAIN jobs' = DOMAIN jobs \cup {nextId}
           /\ nextId \notin DOMAIN jobs
           /\ ret' = nextId
           /\ jobs'[nextId].status = "queued"
           /\ jobs'[nextId].attempts = 0
           /\ jobs'[nextId].type = t
           /\ jobs'[nextId].payload = pl
           /\ jobs'[nextId].scheduled_at = s
           /\ jobs'[nextId].priority = p
           /\ jobs'[nextId].max_attempts = m
           /\ jobs'[nextId].user_id = (IF u = NotPassed THEN NULL ELSE u)
           /\ \A k \in DOMAIN jobs : jobs'[k] = jobs[k]]_vars

\* C14 (cleanup_old): cleanup_old_jobs deletes the rows with finished_at
\* before now - days_old, only the done ones when keep_failed, returns their
\* number and leaves every other row as it is; a row with a NULL finished_at
\* or with status queued or reserved is never deleted.
CleanupDeletesOnlyOld ==
    [][cleanup_commit =>
         /\ \A j \in DOMAIN jobs \ DOMAIN jobs' :
              /\ jobs[j].finished_at # NULL
              /\ jobs[j].status \notin {"queued", "reserved"}
         /\ \A j \in DOMAIN jobs' : jobs'[j] = jobs[j]
         /\ ret' = Cardinality(DOMAIN jobs \ DOMAIN jobs')]_vars

\* The aggregation of section 4.3.5 over the statuses of an album's tracks.
Aggregation(table, album_id) ==
    LET sts == {table[t].status :
                  t \in {u \in DOMAIN table : table[u].album_id = album_id}}
    IN  IF sts = {} THEN "pending"
        ELSE IF sts = {"done"} THEN "completed"
        ELSE IF "downloading" \in sts THEN "downloading"
        ELSE IF sts = {"failed"} THEN "failed"
        ELSE "pending"

\* C15 (P8/I7): when a download_track handler has returned, with ok=True or
\* with ok=False, the committed download_status of the subscription of the
\* track's album is the aggregation of the album's track statuses.
StatusAggregatedAfterDownload ==
    [][\A w \in Workers :
         /\ pc[w] \in {"ok", "fail_retry"}
         /\ pc'[w] = "idle"
         /\ jobs[cur[w]].type = "download_track"
         /\ jobs[cur[w]].payload \in DOMAIN tracks
         => LET a == tracks[jobs[cur[w]].payload].album_id IN
              a \in DOMAIN subs => subs'[a] = Aggregation(tracks', a)]_vars

\* C16 (album aggregation): for every multiset of track statuses the computed
\* status is pending for an album without tracks, completed when all tracks
\* are done, else downloading when any track is downloading, else failed
\* when all tracks are failed, else pending.
AggregationRule ==
    [][\A a \in UpstreamAlbums :
         check_and_update_album_download_status(a) =>
           subs'[a] = Aggregation(tracks, a)]_vars

\* C17 (P4): a sync_artist run that starts after the run of an earlier
\* sync_artist job has returned, with nothing changed upstream, finds no new
\* album and so enqueues no import_album job, whether the first run's
\* import_album jobs have been processed or not.
SecondSyncEnqueuesNothing ==
    [][\A w \in Workers :
         /\ sync_artist_read(w)
         /\ \E j \in JobIds \ {cur[w]} :
              jobs[j].type = "sync_artist" /\ jobs[j].status = "done"
         => locals'[w].albums = {}]_vars

\* C18 (P5): an import_album run leaves file_path and status of every track
\* that had a file when the run read it as they are, and a track it changes
\* had no file and is set to status new.
ImportKeepsDownloaded ==
    [][\A w \in Workers :
         import_album_commit(w) =>
           \A t \in UpstreamTracks \cap DOMAIN tracks :
             /\ locals[w].tracks[t].file_path # NULL =>
                  /\ tracks'[t].file_path = tracks[t].file_path
                  /\ tracks'[t].status = tracks[t].status
             /\ (tracks'[t].status # tracks[t].status
                   \/ tracks'[t].file_path # tracks[t].file_path) =>
                  /\ locals[w].tracks[t].file_path = NULL
                  /\ tracks'[t].status = "new"
                  /\ tracks'[t].file_path = NULL]_vars

\* C18 witness: a second import_album run has just committed over an album
\* with a downloaded track and a track without a file.
ImportKeepsDownloadedWitness ==
    /\ pc["w1"] = "import_enqueue"
    /\ jobs[cur["w1"]].finished_at # NULL
    /\ \E t \in DOMAIN tracks :
         tracks[t].file_path # NULL /\ tracks[t].status = "done"
    /\ \E t \in DOMAIN tracks :
         tracks[t].file_path = NULL /\ tracks[t].status = "new"

\* Scenario S1, the expected final state: one import_album job, two
\* download_track jobs and two download_lyrics jobs, both tracks done and the
\* subscription of the album completed.
S1Final ==
    /\ Cardinality({j \in JobIds : jobs[j].type = "import_album"}) = 1
    /\ Cardinality({j \in JobIds : jobs[j].type = "download_track"}) = 2
    /\ Cardinality({j \in JobIds : jobs[j].type = "download_lyrics"}) = 2
    /\ \A t \in UpstreamTracks :
         t \in DOMAIN tracks /\ tracks[t].status = "done"
    /\ \A a \in UpstreamAlbums :
         a \in DOMAIN subs /\ subs[a] = "completed"

\* C19 (scenario S1): with the extractor succeeding and a worker running
\* fairly, the sync_artist job eventually leads to the final state of the
\* scenario.
S1Completes == <>S1Final

\* C24 (shared-resource policy): concurrent downloads of different tracks do
\* not interfere: a call that returns has put the audio of its own video at
\* its destination, and no call fails for want of its downloaded file.
OwnAudioAtDestination ==
    \A w \in Workers :
        /\ pc[w] = "dl_return" =>
             disk.music[locals[w].video_id] = locals[w].video_id
        /\ pc[w] # "dl_raise"

\* C25 (rate-limit handling): when a download_track run leaves the
\* extractor loop it has called the extractor at most twice, twice only
\* after a rate limit and a cookie reset; a rate limit at the first call
\* only ends with the track done (or, without a cookies file to delete, with
\* a failure and retry_delay_seconds 600); a lasting rate limit ends with a
\* failure and retry_delay_seconds 600, another extractor error with 300.
RateLimitHandling ==
    [][\A w \in Workers :
         /\ pc[w] \in {"download_io", "download_retry"}
         /\ pc'[w] \notin {"download_io", "download_retry"}
         => LET behaviour == locals[w].extractor
                t == jobs[cur[w]].payload
                done == pc'[w] = "download_status" /\ tracks'[t].status = "done"
                failed(delay) ==
                    /\ pc'[w] = "fail_retry"
                    /\ tracks'[t].status = "failed"
                    /\ locals'[w].retry_delay_seconds = delay IN
              /\ locals'[w].calls <= 2
              /\ locals'[w].calls = 2 => pc[w] = "download_retry"
              /\ behaviour = "rate_limited_once" =>
                    IF pc[w] = "download_retry" THEN done ELSE failed(600)
              /\ behaviour = "rate_limited" => failed(600)
              /\ behaviour = "error" => failed(300)]_vars

\* C26 (scenario S4): a download_lyrics run that gets plain lyrics only
\* leaves the track as it is, and when it returns with attempts below
\* max_attempts its job is queued again with scheduled_at at least a day
\* (86400 seconds) after now, the track still as it was.
PlainLyricsRetriedNextDay ==
    [][\A w \in Workers :
         /\ download_lyrics(w, "plain") => tracks' = tracks
         /\ /\ pc[w] = "fail_retry"
            /\ pc'[w] = "idle"
            /\ locals[w].response = "plain"
            /\ jobs[cur[w]].attempts < jobs[cur[w]].max_attempts
            => /\ jobs'[cur[w]].status = "queued"
               /\ jobs'[cur[w]].scheduled_at >= now + 86400
               /\ tracks' = tracks]_vars

\* C26 witness: a download_lyrics job is queued again a day ahead after an
\* answer with plain lyrics only, its track with a file and without lyrics.
PlainLyricsRetriedWitness ==
    \E j \in JobIds :
        /\ jobs[j].type = "download_lyrics"
        /\ jobs[j].status = "queued"
        /\ jobs[j].attempts = 1
        /\ jobs[j].scheduled_at # NULL
        /\ jobs[j].scheduled_at >= 86400
        /\ jobs[j].payload \in DOMAIN tracks
        /\ tracks[jobs[j].payload].file_path # NULL
        /\ ~tracks[jobs[j].payload].has_lyrics
        /\ tracks[jobs[j].payload].lyrics_local = NULL

\* Scenario S2: the album tracks and the playlist tracks.
S2Album ==
    <<[id |-> VideoId(1), title |-> SongLiveParen],
      [id |-> VideoId(2), title |-> Intro]>>
S2Playlist ==
    <<[id |-> AudioId(1), title |-> SongLive],
      [id |-> AudioId(2), title |-> Intro]>>

\* C27 (playlist audio-id substitution): every album track is keyed by the
\* playlist id at its position when there is one and the titles match, else
\* by its album id; the tracks of scenario S2 get the ids a1 and a2.
AudioIdSubstitution ==
    keys.ids # <<>> =>
        /\ \A idx \in DOMAIN keys.album :
             keys.ids[idx] =
               IF /\ idx \in DOMAIN keys.playlist
                  /\ title_match(keys.album[idx].title, keys.playlist[idx].title)
               THEN keys.playlist[idx].id
               ELSE keys.album[idx].id
        /\ keys.album = S2Album /\ keys.playlist = S2Playlist
             => keys.ids = <<AudioId(1), AudioId(2)>>

\* C28 (dispatch errors are terminal): the dispatch of a job whose type has
\* no handler or whose payload does not bind changes no row of the catalog,
\* and the worker marks the job failed, not queued, whatever attempts it has
\* left.
DispatchErrorsTerminal ==
    [][\A w \in Workers :
         LET j == cur[w]
             catalog == <<albums, subs, tracks, followed>> IN
           /\ j \in JobIds
           /\ ~Dispatches(jobs[j])
           /\ pc[w] \in {"running", "fail_final", "fail_retry"}
           /\ pc'[w] # pc[w]
           => /\ catalog' = catalog
              /\ pc'[w] \in {"fail_final", "idle"}
              /\ pc'[w] = "idle" =>
                   /\ jobs'[j].status = "failed"
                   /\ jobs'[j].attempts = jobs[j].attempts]_vars

\* C28 witness: a job that could not be dispatched is failed after one
\* attempt with attempts left, next to a catalog with tracks.
DispatchErrorsTerminalWitness ==
    /\ tracks # <<>>
    /\ \E j \in JobIds :
         /\ ~Dispatches(jobs[j])
         /\ jobs[j].type \notin Registry
         /\ jobs[j].status = "failed"
         /\ jobs[j].attempts = 1
         /\ jobs[j].attempts < jobs[j].max_attempts
    /\ \E j \in JobIds :
         /\ jobs[j].type \in Registry
         /\ ~Binds(jobs[j])
         /\ jobs[j].status = "failed"
         /\ jobs[j].attempts = 1

NeedsSync(a) ==
    /\ monitored[a].followed
    /\ \/ ~monitored[a].subscribed
       \/ monitored[a].last_synced_at = NULL
       \/ monitored[a].last_synced_at < now - SyncIntervalHours

\* C30 (scheduler artist sync): a pass of sync_monitored_artists enqueues
\* exactly one sync_artist job at priority 5 for every artist that is followed
\* and has no subscription, was never synced or was last synced more than the
\* interval ago, and no job for any other artist.
SyncPassEnqueuesDue ==
    [][sync_monitored_artists =>
         \A a \in ArtistIds :
             Cardinality({j \in DOMAIN jobs' \ JobIds :
                            /\ jobs'[j].type = "sync_artist"
                            /\ jobs'[j].payload = a
                            /\ jobs'[j].priority = 5})
               = IF NeedsSync(a) THEN 1 ELSE 0]_vars

\* C31 (scheduler start-up): a loop thread that start() has started keeps
\* looping until it is stopped: it ends only when the stop flag is set (and
\* so, with the database reachable, it comes to its first pass).
LoopsUntilStopped ==
    [][\A t \in ThreadIds :
         is_alive(t) /\ sched'.th[t] = "dead" => sched.stopped]_vars

\* C32 (album_id unique): after any interleaving of sync_artist runs, each
\* checking and then inserting in its own session, album_subscriptions has at
\* most one row for an album_id.
OneSubscriptionPerAlbum ==
    \A a \in DOMAIN subrows : subrows[a] <= 1

\* C23 (no transaction across external I/O): while a handler waits for an
\* external call (the banner download of sync_artist, the extractor run of
\* download_track) its session holds no flushed, uncommitted write.
NoWriteHeldAcrossIO ==
    \A w \in Workers :
        pc[w] \in {"sync_banner", "download_io", "download_retry"}
          => ~locals[w].flushed

\* C22 (I2): in every committed state the artist_id of an album, if it has
\* one, is the id of a row of the artists table.
AlbumArtistExists ==
    \A a \in DOMAIN albums :
        albums[a] # NULL => albums[a] \in ArtistRows

\* C21 (I4): in every committed state a track has a lyrics_local exactly if
\* its has_lyrics is true.
LyricsLocalIffHasLyrics ==
    \A t \in DOMAIN tracks :
        tracks[t].lyrics_local # NULL <=> tracks[t].has_lyrics

\* C20 (I3): in every committed state a track has a file_path exactly if its
\* status is done, or it has one and is being downloaded again.
FilePathIffDone ==
    \A t \in DOMAIN tracks :
        tracks[t].file_path # NULL <=>
          tracks[t].status = "done"
            \/ (tracks[t].status = "downloading" /\ tracks[t].file_path # NULL)

InSyncArtist(w) ==
    \/ pc[w] = "running" /\ jobs[cur[w]].type = "sync_artist"
    \/ pc[w] \in {"sync_banner", "sync_read", "sync_select", "sync_subscribe",
                  "sync_enqueue"}

\* C34 (sync_artist error recording): when sync_artist returns a failure
\* the ArtistSubscription of the artist has last_error set, and when it
\* returns ok the subscription has last_synced_at = now and no last_error.
SyncRecordsOutcome ==
    [][\A w \in Workers :
         InSyncArtist(w) /\ monitored[jobs[cur[w]].payload].subscribed =>
           /\ pc'[w] = "fail_retry" =>
                monitored'[jobs[cur[w]].payload].last_error # "none"
           /\ pc'[w] = "ok" =>
                /\ monitored'[jobs[cur[w]].payload].last_synced_at = now
                /\ monitored'[jobs[cur[w]].payload].last_error = "none"]_vars

\* C35 (start idempotent, stop cooperative): after any sequence of start
\* and stop calls, a stop whose join times out and a start after it among
\* them, at most one loop thread is running a pass.
OneLoopRunsPasses ==
    Cardinality({t \in ThreadIds : sched.th[t] = "pass"}) <= 1

\* C36 (a live worker never leaves its job reserved): at the step where a
\* worker is through with the job it reserved, the job is no longer
\* reserved, also when the commit of mark_job_done or mark_job_failed fails.
FinishedJobNotReserved ==
    [][\A w \in Workers :
         cur[w] \in JobIds /\ cur'[w] = 0 =>
           jobs'[cur[w]].status # "reserved"]_vars

\* C37 (terminal states are absorbing for workers): when a worker comes
\* back from its handler with ok=False and its job is cancelled, done or
\* failed by then, its mark_job_failed leaves the status of the job as it is,
\* with a retry delay or without.
TerminalKeptByMarkFailed ==
    [][\A w \in Workers :
         /\ cur[w] \in JobIds
         /\ cur'[w] = 0
         /\ dones' = dones
         /\ jobs[cur[w]].status \in Terminal
         => jobs'[cur[w]].status = jobs[cur[w]].status]_vars

\* C38 (every job terminates): with workers that run fairly, time that goes
\* on, handlers that return and no cancel or requeue, a job with
\* max_attempts >= 1 is dispatched at most max_attempts times and ends done
\* or failed.
JobsTerminate ==
    /\ [](\A j \in JobIds :
            jobs[j].max_attempts >= 1 => grants[j] <= jobs[j].max_attempts)
    /\ \A j \in 1..MaxJobs :
         [](j \in JobIds =>
              <>(j \in JobIds /\ jobs[j].status \in {"done", "failed"}))

\* C39 (no duplicate downloads): at any time at most one download_track job
\* of a track is queued or reserved, whatever import_album runs, re-runs and
\* retries there were.
OneLiveDownloadPerTrack ==
    \A t \in DOMAIN tracks :
        Cardinality({j \in JobIds :
                        /\ jobs[j].type = "download_track"
                        /\ jobs[j].payload = t
                        /\ jobs[j].status \in {"queued", "reserved"}}) <= 1

\* C40 (import_album does not undo a concurrent download): a track that was
\* committed as done with a file_path while import_album was running is not
\* set back to new by the commit of that import_album, and keeps its
\* file_path.
ImportKeepsConcurrentDone ==
    [][\A w \in Workers : \A t \in DOMAIN tracks :
         /\ pc[w] = "import_commit"
         /\ pc'[w] # "import_commit"
         /\ tracks[t].status = "done"
         /\ tracks[t].file_path # NULL
         => /\ tracks'[t].status = "done"
            /\ tracks'[t].file_path = tracks[t].file_path]_vars

====
